---- MODULE Spec2Model ----
(***************************************************************************)
(* State-machine model of the in-game mail service (app/services,          *)
(* app/models, app/core/config.py): the message store, the anti-spam       *)
(* checks of MessageService._check_spam_protection, the send path of       *)
(* MessageService.create_message, and the reads, the mark-read and the     *)
(* soft delete of MessageService.  Time is counted in whole seconds.       *)
(*                                                                         *)
(* Registration and login (AuthService) are modelled on the same users     *)
(* table.                                                                  *)
(*                                                                         *)
(* Specifications: Spec (sends served one at a time), SpecConc (sends      *)
(* served concurrently), SpecSkew (sends whose created_at is ahead of the  *)
(* service clock), SpecStore (the per-message operations and the listings  *)
(* on a store being filled), SpecList (the listings over a family of       *)
(* tables), SpecAdmit (sends over that family of tables), SpecBoundary     *)
(* (every way a request is refused), SpecConcRead (mark_as_read served     *)
(* concurrently), SpecTxn (create_message as a transaction next to         *)
(* readers), SpecAuth (registrations served concurrently, and logins),     *)
(* SpecRecipient (concurrent sends to every kind of recipient), SpecFrame  *)
(* (the per-message operations on a store of two messages), SpecDeleted    *)
(* (sends next to soft deletes), SpecEdge (sends at the edges of the       *)
(* windows), SpecIdle (sends after more than an hour of silence) and       *)
(* SpecWrite (delete_message and mark_as_read served concurrently).        *)
(***************************************************************************)
EXTENDS Integers, Sequences, FiniteSets, TLC

VARIABLES
    clock,        \* the current time, in seconds (datetime.utcnow / func.now)
    users,        \* table users: id -> [is_active]; SpecAuth keeps all columns
    messages,     \* table messages: a sequence, messages[i].id = i
    attachments,  \* table attachments: a sequence, attachments[k].id = k
    inflight,     \* per request slot: a send between its checks and its commit
    last,         \* the response of the handler that ran last
    before        \* history: the rows as they were when that handler began

vars == <<clock, users, messages, attachments, inflight, last, before>>

----------------------------------------------------------------------------
(* Settings (app/core/config.py).  The two message caps are overridable    *)
(* settings; the model runs them at small values so that the caps are      *)
(* reached within the message bound.  The windows keep their values.       *)
MAX_MESSAGES_PER_HOUR == 3

MAX_MESSAGES_PER_MINUTE == 2

MIN_SECONDS_BETWEEN_MESSAGES == 3

DUPLICATE_MESSAGE_WINDOW_SECONDS == 300

\* timedelta(minutes=1) and timedelta(hours=1), in seconds
SECONDS_PER_MINUTE == 60

SECONDS_PER_HOUR == 3600

(* Bounds of the model. *)
MaxMsgs == 3

\* the instants at which requests arrive: the clock moves from one to a later
\* one.  Messages sent at 0 and 3 are met inside, at the edge of and past the
\* minimum interval (3), the minute (60, 61, 64), the duplicate window (303)
\* and the hour (3603).
Instants == {0, 3, 60, 61, 64, 67, 303, 3603}

\* request slots served concurrently
Procs == {"p1", "p2"}

\* an Optional column or field: NULL or a one-element tuple
NULL == << >>

\* the attachments of tests/test_message_service.py; quantity is counted in
\* hundredths, the scale of the column Numeric(10, 2)

AttItem ==
    [attachment_type |-> "item", item_id |-> <<123>>, item_name |-> <<"Test Item">>,
     quantity |-> 100, attachment_data |-> <<"rarity=epic">>]

AttGold ==
    [attachment_type |-> "gold", item_id |-> NULL, item_name |-> NULL,
     quantity |-> 10000, attachment_data |-> NULL]

\* a validated MessageCreate body; attachments None is the empty list
MessageCreate(recipient_id, subject, body, atts) ==
    [recipient_id |-> recipient_id, subject |-> subject, body |-> body,
     attachments |-> atts]

\* a request POST /messages: the authenticated user's id and the body
Request(sender_id, data) == [sender_id |-> sender_id, data |-> data]

(* The requests tried.  Users 1, 2 and 3 are active, 4 is inactive and 5   *)
(* is no user.  Sender 1 varies the recipient, the subject and the body;   *)
(* sender 2 repeats a message of sender 1; the rest are the invalid sends. *)
Requests ==
    {Request(1, MessageCreate(2, "Hi", "body", << >>)),
     Request(1, MessageCreate(2, "Hi", "text", <<AttItem, AttGold>>)),
     Request(1, MessageCreate(2, "Re", "body", << >>)),
     Request(1, MessageCreate(3, "Hi", "body", <<AttGold>>)),
     Request(2, MessageCreate(3, "Hi", "body", << >>)),
     Request(1, MessageCreate(1, "Hi", "body", << >>)),
     Request(1, MessageCreate(4, "Hi", "body", << >>)),
     Request(1, MessageCreate(5, "Hi", "body", << >>)),
     Request(4, MessageCreate(4, "Hi", "body", << >>)),
     Request(5, MessageCreate(5, "Hi", "body", << >>))}

\* no send is pending in a request slot
Idle == [pc |-> "idle"]

----------------------------------------------------------------------------
(* MessageService._check_spam_protection *)

\* a fault: the duplicate window taken as one hour
DuplicateMessages_HourWindow(msgs, sender_id, recipient_id, subject, body, now) ==
    {i \in DOMAIN msgs :
        /\ msgs[i].sender_id = sender_id
        /\ msgs[i].recipient_id = recipient_id
        /\ msgs[i].subject = subject
        /\ msgs[i].body = body
        /\ msgs[i].created_at >= now - SECONDS_PER_HOUR}

\* a fault: the duplicate window taken as one minute
DuplicateMessages_MinuteWindow(msgs, sender_id, recipient_id, subject, body, now) ==
    {i \in DOMAIN msgs :
        /\ msgs[i].sender_id = sender_id
        /\ msgs[i].recipient_id = recipient_id
        /\ msgs[i].subject = subject
        /\ msgs[i].body = body
        /\ msgs[i].created_at >= now - SECONDS_PER_MINUTE}

\* a fault: the identical messages of any sender count as duplicates
DuplicateMessages_AnySender(msgs, sender_id, recipient_id, subject, body, now) ==
    {i \in DOMAIN msgs :
        /\ msgs[i].recipient_id = recipient_id
        /\ msgs[i].subject = subject
        /\ msgs[i].body = body
        /\ msgs[i].created_at >= now - DUPLICATE_MESSAGE_WINDOW_SECONDS}

\* check 1: the identical messages of the sender inside the duplicate window
DuplicateMessages(msgs, sender_id, recipient_id, subject, body, now) ==
    {i \in DOMAIN msgs :
        /\ msgs[i].sender_id = sender_id
        /\ msgs[i].recipient_id = recipient_id
        /\ msgs[i].subject = subject
        /\ msgs[i].body = body
        /\ msgs[i].created_at >= now - DUPLICATE_MESSAGE_WINDOW_SECONDS}

\* check 2: the sender's messages not older than the minimum interval
RecentMessages(msgs, sender_id, now) ==
    {i \in DOMAIN msgs :
        /\ msgs[i].sender_id = sender_id
        /\ msgs[i].created_at >= now - MIN_SECONDS_BETWEEN_MESSAGES}

\* order_by(created_at.desc()).first() over a non-empty set of rows
LatestCreatedAt(msgs, rows) ==
    CHOOSE t \in {msgs[i].created_at : i \in rows} :
        \A i \in rows : msgs[i].created_at <= t

\* a fault: a message exactly the minimum interval old still blocks
MinIntervalViolated_Inclusive(msgs, sender_id, now) ==
    LET recent == RecentMessages(msgs, sender_id, now)
    IN  /\ recent # {}
        /\ LET seconds_ago == now - LatestCreatedAt(msgs, recent)
           IN  seconds_ago >= 0 /\ seconds_ago <= MIN_SECONDS_BETWEEN_MESSAGES

\* a fault: the guard against a negative elapsed time is missing
MinIntervalViolated_NoSkewGuard(msgs, sender_id, now) ==
    LET recent == RecentMessages(msgs, sender_id, now)
    IN  /\ recent # {}
        /\ LET seconds_ago == now - LatestCreatedAt(msgs, recent)
           IN  seconds_ago < MIN_SECONDS_BETWEEN_MESSAGES

MinIntervalViolated(msgs, sender_id, now) ==
    LET recent == RecentMessages(msgs, sender_id, now)
    IN  /\ recent # {}
        /\ LET seconds_ago == now - LatestCreatedAt(msgs, recent)
           IN  seconds_ago >= 0 /\ seconds_ago < MIN_SECONDS_BETWEEN_MESSAGES

\* a fault: a row created exactly at the window's edge is not counted
CountSince_Strict(msgs, sender_id, since) ==
    Cardinality({i \in DOMAIN msgs :
        msgs[i].sender_id = sender_id /\ msgs[i].created_at > since})

\* a fault: the rows of every sender are counted
CountSince_AllSenders(msgs, sender_id, since) ==
    Cardinality({i \in DOMAIN msgs : msgs[i].created_at >= since})

\* a fault: the rows the sender has deleted are not counted
CountSince_SkipsDeleted(msgs, sender_id, since) ==
    Cardinality({i \in DOMAIN msgs :
        /\ msgs[i].sender_id = sender_id
        /\ msgs[i].created_at >= since
        /\ ~msgs[i].is_deleted_by_sender})

\* a fault: the window has no lower edge, every row of the sender counts
CountSince_Ever(msgs, sender_id, since) ==
    Cardinality({i \in DOMAIN msgs : msgs[i].sender_id = sender_id})

\* a fault: the window ends at its lower edge plus a minute or an hour at
\* the least, rows much later than the request are not counted
CountSince_BoundedAbove(msgs, sender_id, since) ==
    Cardinality({i \in DOMAIN msgs :
        /\ msgs[i].sender_id = sender_id
        /\ msgs[i].created_at >= since
        /\ msgs[i].created_at <= since + SECONDS_PER_MINUTE})

\* checks 3 and 4: count(Message.id) of the sender's rows since a time
CountSince(msgs, sender_id, since) ==
    Cardinality({i \in DOMAIN msgs :
        msgs[i].sender_id = sender_id /\ msgs[i].created_at >= since})

\* a fault: the per-minute count is taken over the last hour
CheckSpamProtection_MinuteCountOverHour(msgs, sender_id, recipient_id, subject, body, now) ==
    IF DuplicateMessages(msgs, sender_id, recipient_id, subject, body, now) # {}
    THEN "DUPLICATE"
    ELSE IF MinIntervalViolated(msgs, sender_id, now)
    THEN "MIN_INTERVAL"
    ELSE IF CountSince(msgs, sender_id, now - SECONDS_PER_HOUR)
                >= MAX_MESSAGES_PER_MINUTE
    THEN "RATE_MINUTE"
    ELSE IF CountSince(msgs, sender_id, now - SECONDS_PER_HOUR)
                >= MAX_MESSAGES_PER_HOUR
    THEN "RATE_HOUR"
    ELSE "OK"

\* a fault: the per-hour count is held against the per-minute cap
CheckSpamProtection_HourCapMixedUp(msgs, sender_id, recipient_id, subject, body, now) ==
    IF DuplicateMessages(msgs, sender_id, recipient_id, subject, body, now) # {}
    THEN "DUPLICATE"
    ELSE IF MinIntervalViolated(msgs, sender_id, now)
    THEN "MIN_INTERVAL"
    ELSE IF CountSince(msgs, sender_id, now - SECONDS_PER_MINUTE)
                >= MAX_MESSAGES_PER_MINUTE
    THEN "RATE_MINUTE"
    ELSE IF CountSince(msgs, sender_id, now - SECONDS_PER_HOUR)
                >= MAX_MESSAGES_PER_MINUTE
    THEN "RATE_HOUR"
    ELSE "OK"

\* a fault: the checks run in another order, the caps before the duplicates
CheckSpamProtection_CapsFirst(msgs, sender_id, recipient_id, subject, body, now) ==
    IF CountSince(msgs, sender_id, now - SECONDS_PER_HOUR)
                >= MAX_MESSAGES_PER_HOUR
    THEN "RATE_HOUR"
    ELSE IF CountSince(msgs, sender_id, now - SECONDS_PER_MINUTE)
                >= MAX_MESSAGES_PER_MINUTE
    THEN "RATE_MINUTE"
    ELSE IF MinIntervalViolated(msgs, sender_id, now)
    THEN "MIN_INTERVAL"
    ELSE IF DuplicateMessages(msgs, sender_id, recipient_id, subject, body, now) # {}
    THEN "DUPLICATE"
    ELSE "OK"

\* the first failing check decides; "OK" when none fails
CheckSpamProtection(msgs, sender_id, recipient_id, subject, body, now) ==
    IF DuplicateMessages(msgs, sender_id, recipient_id, subject, body, now) # {}
    THEN "DUPLICATE"
    ELSE IF MinIntervalViolated(msgs, sender_id, now)
    THEN "MIN_INTERVAL"
    ELSE IF CountSince(msgs, sender_id, now - SECONDS_PER_MINUTE)
                >= MAX_MESSAGES_PER_MINUTE
    THEN "RATE_MINUTE"
    ELSE IF CountSince(msgs, sender_id, now - SECONDS_PER_HOUR)
                >= MAX_MESSAGES_PER_HOUR
    THEN "RATE_HOUR"
    ELSE "OK"

----------------------------------------------------------------------------
(* MessageService.create_message *)

\* a fault: the self-send test is missing
ValidateRecipient_NoSelfTest(usrs, sender_id, recipient_id) ==
    IF recipient_id \notin DOMAIN usrs THEN "NOT_FOUND"
    ELSE IF ~usrs[recipient_id].is_active THEN "INACTIVE_RECIPIENT"
    ELSE "OK"

\* a fault: the test of is_active is missing
ValidateRecipient_InactiveAllowed(usrs, sender_id, recipient_id) ==
    IF recipient_id \notin DOMAIN usrs THEN "NOT_FOUND"
    ELSE IF sender_id = recipient_id THEN "SELF_SEND"
    ELSE "OK"

\* the recipient lookup and the self-send test
ValidateRecipient(usrs, sender_id, recipient_id) ==
    IF recipient_id \notin DOMAIN usrs THEN "NOT_FOUND"
    ELSE IF ~usrs[recipient_id].is_active THEN "INACTIVE_RECIPIENT"
    ELSE IF sender_id = recipient_id THEN "SELF_SEND"
    ELSE "OK"

\* a fault: the spam check runs before the recipient is validated
CreateMessageCheck_SpamFirst(usrs, msgs, sender_id, data, now) ==
    LET c == CheckSpamProtection(msgs, sender_id, data.recipient_id,
                                 data.subject, data.body, now)
    IN  IF c # "OK" THEN c
        ELSE LET v == ValidateRecipient(usrs, sender_id, data.recipient_id)
             IN  IF v # "OK" THEN v ELSE "ADMITTED"

\* everything create_message does before it builds the row
CreateMessageCheck(usrs, msgs, sender_id, data, now) ==
    LET v == ValidateRecipient(usrs, sender_id, data.recipient_id)
    IN  IF v # "OK" THEN v
        ELSE LET c == CheckSpamProtection(msgs, sender_id, data.recipient_id,
                                          data.subject, data.body, now)
             IN  IF c # "OK" THEN c ELSE "ADMITTED"

\* a fault: a duplicate is answered like the rate limits, with 429
StatusCode_DuplicateTooManyRequests(outcome) ==
    CASE outcome = "ADMITTED" -> 201
      [] outcome = "OK" -> 200
      [] outcome = "NO_CONTENT" -> 204
      [] outcome = "FORBIDDEN" -> 403
      [] outcome = "NOT_FOUND" -> 404
      [] outcome \in {"INACTIVE_RECIPIENT", "SELF_SEND"} -> 400
      [] outcome \in {"DUPLICATE", "MIN_INTERVAL", "RATE_MINUTE", "RATE_HOUR"} -> 429

\* the HTTP status of each outcome
StatusCode(outcome) ==
    CASE outcome = "ADMITTED" -> 201
      [] outcome = "OK" -> 200
      [] outcome = "NO_CONTENT" -> 204
      [] outcome = "FORBIDDEN" -> 403
      [] outcome = "NOT_FOUND" -> 404
      [] outcome \in {"INACTIVE_RECIPIENT", "SELF_SEND", "DUPLICATE"} -> 400
      [] outcome \in {"MIN_INTERVAL", "RATE_MINUTE", "RATE_HOUR"} -> 429

\* Message(...) with the column defaults, its id assigned by the flush
NewMessage(msgs, sender_id, data, created) ==
    [id |-> Len(msgs) + 1,
     sender_id |-> sender_id,
     recipient_id |-> data.recipient_id,
     subject |-> data.subject,
     body |-> data.body,
     is_read |-> FALSE,
     is_deleted_by_sender |-> FALSE,
     is_deleted_by_recipient |-> FALSE,
     created_at |-> created,
     read_at |-> NULL]

\* a fault: the attachment rows are written in reverse order
NewAttachments_Reversed(atts, message_id, list) ==
    [k \in 1..Len(list) |->
        [id |-> Len(atts) + k,
         message_id |-> message_id,
         attachment_type |-> list[Len(list) + 1 - k].attachment_type,
         item_id |-> list[Len(list) + 1 - k].item_id,
         item_name |-> list[Len(list) + 1 - k].item_name,
         quantity |-> list[Len(list) + 1 - k].quantity,
         attachment_data |-> list[Len(list) + 1 - k].attachment_data]]

\* one Attachment row per entry of the request, in request order
NewAttachments(atts, message_id, list) ==
    [k \in 1..Len(list) |->
        [id |-> Len(atts) + k,
         message_id |-> message_id,
         attachment_type |-> list[k].attachment_type,
         item_id |-> list[k].item_id,
         item_name |-> list[k].item_name,
         quantity |-> list[k].quantity,
         attachment_data |-> list[k].attachment_data]]

\* add, flush, add the attachments, commit
CreateMessageInsert(msgs, atts, sender_id, data, created) ==
    LET m == NewMessage(msgs, sender_id, data, created)
    IN  [messages |-> Append(msgs, m),
         attachments |-> atts \o NewAttachments(atts, m.id, data.attachments)]

\* a fault: the row is written before the spam check and kept when it fails
CreateMessage_InsertBeforeSpamCheck(usrs, msgs, atts, sender_id, data, now) ==
    LET outcome == CreateMessageCheck(usrs, msgs, sender_id, data, now)
    IN  IF ValidateRecipient(usrs, sender_id, data.recipient_id) = "OK"
        THEN [outcome |-> outcome]
                 @@ CreateMessageInsert(msgs, atts, sender_id, data, now)
        ELSE [outcome |-> outcome, messages |-> msgs, attachments |-> atts]

\* the whole handler on a store nobody else writes to
CreateMessage(usrs, msgs, atts, sender_id, data, now) ==
    LET outcome == CreateMessageCheck(usrs, msgs, sender_id, data, now)
    IN  IF outcome = "ADMITTED"
        THEN [outcome |-> outcome]
                 @@ CreateMessageInsert(msgs, atts, sender_id, data, now)
        ELSE [outcome |-> outcome, messages |-> msgs, attachments |-> atts]

\* the rows of both tables
Rows(msgs, atts) == [messages |-> msgs, attachments |-> atts]

\* a fault: the MIN_INTERVAL message tells the seconds left to wait
Detail_SecondsRemaining(outcome, msgs, sender_id, now) ==
    CASE outcome = "NOT_FOUND" ->
            [text |-> <<"Recipient not found">>, values |-> << >>]
      [] outcome = "INACTIVE_RECIPIENT" ->
            [text |-> <<"Cannot send message to inactive user">>, values |-> << >>]
      [] outcome = "SELF_SEND" ->
            [text |-> <<"Cannot send message to yourself">>, values |-> << >>]
      [] outcome = "DUPLICATE" ->
            [text |-> <<"You have recently sent an identical message to this recipient. Please wait before sending duplicates.">>,
             values |-> << >>]
      [] outcome = "MIN_INTERVAL" ->
            [text |-> <<"Please wait ", " seconds between messages. Last message was sent ",
                        " seconds ago.">>,
             values |-> <<MIN_SECONDS_BETWEEN_MESSAGES,
                          MIN_SECONDS_BETWEEN_MESSAGES
                              - (now - LatestCreatedAt(msgs, RecentMessages(msgs, sender_id, now)))>>]
      [] outcome = "RATE_MINUTE" ->
            [text |-> <<"Too many messages sent. Maximum ", " messages per minute allowed.">>,
             values |-> <<MAX_MESSAGES_PER_MINUTE>>]
      [] outcome = "RATE_HOUR" ->
            [text |-> <<"Too many messages sent. Maximum ", " messages per hour allowed.">>,
             values |-> <<MAX_MESSAGES_PER_HOUR>>]
      [] OTHER -> [text |-> << >>, values |-> << >>]

\* the detail of the HTTPException a send is rejected with: the pieces of
\* the (formatted) string and the values formatted into it, in order.
\* int(seconds_ago) is seconds_ago, time being counted in whole seconds.
Detail(outcome, msgs, sender_id, now) ==
    CASE outcome = "NOT_FOUND" ->
            [text |-> <<"Recipient not found">>, values |-> << >>]
      [] outcome = "INACTIVE_RECIPIENT" ->
            [text |-> <<"Cannot send message to inactive user">>, values |-> << >>]
      [] outcome = "SELF_SEND" ->
            [text |-> <<"Cannot send message to yourself">>, values |-> << >>]
      [] outcome = "DUPLICATE" ->
            [text |-> <<"You have recently sent an identical message to this recipient. Please wait before sending duplicates.">>,
             values |-> << >>]
      [] outcome = "MIN_INTERVAL" ->
            [text |-> <<"Please wait ", " seconds between messages. Last message was sent ",
                        " seconds ago.">>,
             values |-> <<MIN_SECONDS_BETWEEN_MESSAGES,
                          now - LatestCreatedAt(msgs, RecentMessages(msgs, sender_id, now))>>]
      [] outcome = "RATE_MINUTE" ->
            [text |-> <<"Too many messages sent. Maximum ", " messages per minute allowed.">>,
             values |-> <<MAX_MESSAGES_PER_MINUTE>>]
      [] outcome = "RATE_HOUR" ->
            [text |-> <<"Too many messages sent. Maximum ", " messages per hour allowed.">>,
             values |-> <<MAX_MESSAGES_PER_HOUR>>]
      [] OTHER -> [text |-> << >>, values |-> << >>]

\* the response of create_message as the caller sees it; a rejection is
\* raised by the checks, which read the committed rows at the request's time
SendResponse(sender_id, data, outcome) ==
    [op |-> "create_message", user_id |-> sender_id, data |-> data,
     outcome |-> outcome, status |-> StatusCode(outcome),
     detail |-> Detail(outcome, messages, sender_id, clock)]

----------------------------------------------------------------------------
(* The state machine *)

\* the store before the first request: the users exist, nothing was sent
Init ==
    /\ clock = 0
    /\ users = (1 :> [is_active |-> TRUE] @@ 2 :> [is_active |-> TRUE]
                @@ 3 :> [is_active |-> TRUE] @@ 4 :> [is_active |-> FALSE])
    /\ messages = << >>
    /\ attachments = << >>
    /\ inflight = [p \in Procs |-> Idle]
    /\ last = [op |-> "none"]
    /\ before = Rows(<< >>, << >>)

\* time passes until a later instant; the last response has been delivered
Tick ==
    /\ \E t \in Instants : t > clock /\ clock' = t
    /\ last' = [op |-> "none"]
    /\ before' = Rows(messages, attachments)
    /\ UNCHANGED <<users, messages, attachments, inflight>>

\* one request POST /messages served alone
Send ==
    \E req \in Requests :
        LET r == CreateMessage(users, messages, attachments,
                               req.sender_id, req.data, clock)
        IN  /\ Len(r.messages) <= MaxMsgs
            /\ messages' = r.messages
            /\ attachments' = r.attachments
            /\ last' = SendResponse(req.sender_id, req.data, r.outcome)
            /\ before' = Rows(messages, attachments)
            /\ UNCHANGED <<clock, users, inflight>>

Next == Tick \/ Send

Spec == Init /\ [][Next]_vars

----------------------------------------------------------------------------
(* Requests served concurrently: each runs create_message in its own       *)
(* session; its queries read the committed rows, and its row becomes       *)
(* visible to the others at its commit.                                    *)

\* the requests that arrive while another one is being served
ConcRequests ==
    {Request(1, MessageCreate(2, "Hi", "body", << >>)),
     Request(1, MessageCreate(2, "Hi", "text", <<AttItem, AttGold>>)),
     Request(2, MessageCreate(3, "Hi", "body", << >>)),
     Request(1, MessageCreate(4, "Hi", "body", << >>))}

\* the sends that passed their checks and have not committed yet
Pending == {p \in Procs : inflight[p].pc = "insert"}

\* create_message up to the spam check (lines 98-122) of one of requests
BeginSend(p, requests) ==
    /\ inflight[p] = Idle
    /\ \E req \in requests :
        LET outcome == CreateMessageCheck(users, messages, req.sender_id,
                                          req.data, clock)
        IN  IF outcome = "ADMITTED"
            THEN /\ Len(messages) + Cardinality(Pending) < MaxMsgs
                 /\ inflight' = [inflight EXCEPT ![p] =
                        [pc |-> "insert", sender_id |-> req.sender_id,
                         data |-> req.data, now |-> clock,
                         checked |-> Len(messages)]]
                 /\ UNCHANGED <<last, before>>
            ELSE /\ last' = SendResponse(req.sender_id, req.data, outcome)
                 /\ before' = Rows(messages, attachments)
                 /\ UNCHANGED inflight
    /\ UNCHANGED <<clock, users, messages, attachments>>

\* create_message up to the spam check of one request that arrives while
\* another one is being served
ConcBegin(p) == BeginSend(p, ConcRequests)

\* the rest of create_message (lines 124-151): the INSERTs and the commit.
\* func.now() is the time of the transaction's start or of the INSERT,
\* as the database has it.
ConcCommit(p) ==
    /\ inflight[p].pc = "insert"
    /\ \E created \in {inflight[p].now, clock} :
        LET r == CreateMessageInsert(messages, attachments, inflight[p].sender_id,
                                     inflight[p].data, created)
        IN  /\ messages' = r.messages
            /\ attachments' = r.attachments
    /\ last' = SendResponse(inflight[p].sender_id, inflight[p].data, "ADMITTED")
    /\ before' = Rows(messages, attachments)
    /\ inflight' = [inflight EXCEPT ![p] = Idle]
    /\ UNCHANGED <<clock, users>>

NextConc == Tick \/ (\E p \in Procs : ConcBegin(p)) \/ (\E p \in Procs : ConcCommit(p))

SpecConc == Init /\ [][NextConc]_vars

----------------------------------------------------------------------------
(* Sends to every kind of recipient served concurrently: a user, the       *)
(* sender itself, an inactive user and an id that is no user.              *)

\* the sends of tests/test_message_service.py to a user, to an inactive
\* user, to an id that is no user and to the sender, from three senders
RecipientRequests ==
    {Request(1, MessageCreate(2, "Hi", "body", << >>)),
     Request(2, MessageCreate(1, "Hi", "body", << >>)),
     Request(3, MessageCreate(1, "Re", "body", << >>)),
     Request(1, MessageCreate(1, "Hi", "body", << >>)),
     Request(3, MessageCreate(3, "Hi", "body", << >>)),
     Request(1, MessageCreate(4, "Hi", "body", << >>)),
     Request(2, MessageCreate(5, "Hi", "body", << >>))}

\* the instants of the concurrent sends: inside and past the minimum interval
RecipientInstants == {0, 3}

TickRecipient ==
    /\ \E t \in RecipientInstants : t > clock /\ clock' = t
    /\ UNCHANGED <<users, messages, attachments, inflight, last, before>>

RecipientBegin(p) == BeginSend(p, RecipientRequests)

NextRecipient ==
    \/ TickRecipient
    \/ \E p \in Procs : RecipientBegin(p)
    \/ \E p \in Procs : ConcCommit(p)

SpecRecipient == Init /\ [][NextRecipient]_vars

----------------------------------------------------------------------------
(* Two clocks: created_at is stamped by the database (server_default       *)
(* func.now()), the checks take now from the application                   *)
(* (datetime.utcnow()).  The variable clock is the application's time; the *)
(* database's time is ahead of it by a skew that differs from send to send.*)

\* a bound of the skew model: the messages stored
MaxSkewed == 2

\* the seconds the database clock is ahead of the application clock
Skews == {0, 2, 5, 70}

\* the instants at which requests arrive under skew
SkewInstants == {0, 2, 3, 5, 60}

\* the sends tried under skew: one sender varies the subject and the body,
\* another sender repeats its message
SkewRequests ==
    {Request(1, MessageCreate(2, "Hi", "body", << >>)),
     Request(1, MessageCreate(2, "Re", "body", << >>)),
     Request(1, MessageCreate(2, "Hi", "text", << >>)),
     Request(3, MessageCreate(2, "Hi", "body", << >>))}

\* time passes on the application clock
TickSkew ==
    /\ \E t \in SkewInstants : t > clock /\ clock' = t
    /\ last' = [op |-> "none"]
    /\ before' = Rows(messages, attachments)
    /\ UNCHANGED <<users, messages, attachments, inflight>>

\* POST /messages: the checks run at the application's time, the row is
\* stamped with the database's time
SkewSend ==
    \E req \in SkewRequests, skew \in Skews :
        LET outcome == CreateMessageCheck(users, messages, req.sender_id,
                                          req.data, clock)
            r == CreateMessageInsert(messages, attachments, req.sender_id,
                                     req.data, clock + skew)
        IN  /\ IF outcome = "ADMITTED"
               THEN /\ Len(messages) < MaxSkewed
                    /\ messages' = r.messages
                    /\ attachments' = r.attachments
               ELSE UNCHANGED <<messages, attachments>>
            /\ last' = SendResponse(req.sender_id, req.data, outcome)
            /\ before' = Rows(messages, attachments)
            /\ UNCHANGED <<clock, users, inflight>>

NextSkew == TickSkew \/ SkewSend

SpecSkew == Init /\ [][NextSkew]_vars

----------------------------------------------------------------------------
(* The message store: MessageService.get_message_by_id, mark_as_read,      *)
(* delete_message, get_inbox_messages and get_sent_messages.               *)

\* a bound of the store model: the messages stored while the reads, the
\* mark-read and the soft-delete are tried
MaxStored == 1

\* the authenticated users who ask for messages; 3 is party to few of them
Viewers == {1, 2, 3}

\* Message.attachments: the attachment rows of message id, in id order
AttachmentsOf(atts, id) == SelectSeq(atts, LAMBDA a : a.message_id = id)

\* the row with Message.id == message_id: query(...).first()
RowOf(msgs, message_id) == CHOOSE i \in DOMAIN msgs : msgs[i].id = message_id

\* the answer of a per-message operation: the outcome, the message returned
\* (if any) and the rows afterwards
Answer(outcome, message, msgs) ==
    [outcome |-> outcome, detail |-> NULL, message |-> message, messages |-> msgs]

\* the answer that is an HTTPException: its kind and its detail; no message
\* is returned and no row is written
Refusal(outcome, detail, msgs) ==
    [outcome |-> outcome, detail |-> <<detail>>, message |-> NULL, messages |-> msgs]

\* a fault: a message the caller has soft-deleted is told apart from a
\* missing one by the detail of the 404
GetMessageById_DeletedToldApart(msgs, message_id, user_id) ==
    IF ~\E i \in DOMAIN msgs : msgs[i].id = message_id
    THEN Refusal("NOT_FOUND", "Message not found", msgs)
    ELSE LET message == msgs[RowOf(msgs, message_id)]
         IN  IF message.sender_id # user_id /\ message.recipient_id # user_id
             THEN Refusal("FORBIDDEN", "Not enough permissions", msgs)
             ELSE IF message.sender_id = user_id /\ message.is_deleted_by_sender
             THEN Refusal("NOT_FOUND", "Message deleted", msgs)
             ELSE IF message.recipient_id = user_id /\ message.is_deleted_by_recipient
             THEN Refusal("NOT_FOUND", "Message deleted", msgs)
             ELSE Answer("OK", <<message>>, msgs)

\* a fault: the recipient's own deletion flag is not looked at
GetMessageById_RecipientFlagIgnored(msgs, message_id, user_id) ==
    IF ~\E i \in DOMAIN msgs : msgs[i].id = message_id
    THEN Refusal("NOT_FOUND", "Message not found", msgs)
    ELSE LET message == msgs[RowOf(msgs, message_id)]
         IN  IF message.sender_id # user_id /\ message.recipient_id # user_id
             THEN Refusal("FORBIDDEN", "Not enough permissions", msgs)
             ELSE IF message.sender_id = user_id /\ message.is_deleted_by_sender
             THEN Refusal("NOT_FOUND", "Message not found", msgs)
             ELSE Answer("OK", <<message>>, msgs)

\* a fault: a message is marked read when its recipient fetches it
GetMessageById_MarksRead(msgs, message_id, user_id) ==
    IF ~\E i \in DOMAIN msgs : msgs[i].id = message_id
    THEN Refusal("NOT_FOUND", "Message not found", msgs)
    ELSE LET i == RowOf(msgs, message_id)
             message == msgs[i]
         IN  IF message.sender_id # user_id /\ message.recipient_id # user_id
             THEN Refusal("FORBIDDEN", "Not enough permissions", msgs)
             ELSE IF message.sender_id = user_id /\ message.is_deleted_by_sender
             THEN Refusal("NOT_FOUND", "Message not found", msgs)
             ELSE IF message.recipient_id = user_id /\ message.is_deleted_by_recipient
             THEN Refusal("NOT_FOUND", "Message not found", msgs)
             ELSE IF message.recipient_id = user_id
             THEN Answer("OK", <<[message EXCEPT !.is_read = TRUE]>>,
                      [msgs EXCEPT ![i].is_read = TRUE])
             ELSE Answer("OK", <<message>>, msgs)

\* get_message_by_id: missing, not a party, deleted by the caller, or found
GetMessageById(msgs, message_id, user_id) ==
    IF ~\E i \in DOMAIN msgs : msgs[i].id = message_id
    THEN Refusal("NOT_FOUND", "Message not found", msgs)
    ELSE LET message == msgs[RowOf(msgs, message_id)]
         IN  IF message.sender_id # user_id /\ message.recipient_id # user_id
             THEN Refusal("FORBIDDEN", "Not enough permissions", msgs)
             ELSE IF message.sender_id = user_id /\ message.is_deleted_by_sender
             THEN Refusal("NOT_FOUND", "Message not found", msgs)
             ELSE IF message.recipient_id = user_id /\ message.is_deleted_by_recipient
             THEN Refusal("NOT_FOUND", "Message not found", msgs)
             ELSE Answer("OK", <<message>>, msgs)

\* a fault: read_at is stamped on every call, read or not
MarkAsRead_AlwaysStamps(msgs, message_id, user_id, now) ==
    LET got == GetMessageById(msgs, message_id, user_id)
    IN  IF got.outcome # "OK" THEN got
        ELSE LET message == got.message[1]
                 i == RowOf(msgs, message_id)
             IN  IF message.recipient_id # user_id
                 THEN Refusal("FORBIDDEN", "Only recipient can mark message as read", msgs)
                 ELSE LET updated == [message EXCEPT !.is_read = TRUE,
                                                     !.read_at = <<now>>]
                      IN  Answer("OK", <<updated>>, [msgs EXCEPT ![i] = updated])

\* a fault: the recipient test is missing, so the sender marks the message
MarkAsRead_NoRecipientTest(msgs, message_id, user_id, now) ==
    LET got == GetMessageById(msgs, message_id, user_id)
    IN  IF got.outcome # "OK" THEN got
        ELSE LET message == got.message[1]
                 i == RowOf(msgs, message_id)
             IN  IF ~message.is_read
                 THEN LET updated == [message EXCEPT !.is_read = TRUE,
                                                     !.read_at = <<now>>]
                      IN  Answer("OK", <<updated>>, [msgs EXCEPT ![i] = updated])
                 ELSE Answer("OK", <<message>>, msgs)

\* a fault: the update has no WHERE clause, every message is marked read
MarkAsRead_MarksAll(msgs, message_id, user_id, now) ==
    LET got == GetMessageById(msgs, message_id, user_id)
    IN  IF got.outcome # "OK" THEN got
        ELSE LET message == got.message[1]
             IN  IF message.recipient_id # user_id
                 THEN Refusal("FORBIDDEN", "Only recipient can mark message as read", msgs)
                 ELSE IF ~message.is_read
                 THEN LET updated == [message EXCEPT !.is_read = TRUE,
                                                     !.read_at = <<now>>]
                      IN  Answer("OK", <<updated>>,
                              [k \in DOMAIN msgs |->
                                  [msgs[k] EXCEPT !.is_read = TRUE,
                                                  !.read_at = <<now>>]])
                 ELSE Answer("OK", <<message>>, msgs)

\* a fault: the recipient marks a message it has deleted
MarkAsRead_DeletedMarkable(msgs, message_id, user_id, now) ==
    LET got == GetMessageById_RecipientFlagIgnored(msgs, message_id, user_id)
    IN  IF got.outcome # "OK" THEN got
        ELSE LET message == got.message[1]
                 i == RowOf(msgs, message_id)
             IN  IF message.recipient_id # user_id
                 THEN Refusal("FORBIDDEN", "Only recipient can mark message as read", msgs)
                 ELSE IF ~message.is_read
                 THEN LET updated == [message EXCEPT !.is_read = TRUE,
                                                     !.read_at = <<now>>]
                      IN  Answer("OK", <<updated>>, [msgs EXCEPT ![i] = updated])
                 ELSE Answer("OK", <<message>>, msgs)

\* mark_as_read: the access check of get_message_by_id, the recipient test,
\* then the update, made only when the message is unread
MarkAsRead(msgs, message_id, user_id, now) ==
    LET got == GetMessageById(msgs, message_id, user_id)
    IN  IF got.outcome # "OK" THEN got
        ELSE LET message == got.message[1]
                 i == RowOf(msgs, message_id)
             IN  IF message.recipient_id # user_id
                 THEN Refusal("FORBIDDEN", "Only recipient can mark message as read", msgs)
                 ELSE IF ~message.is_read
                 THEN LET updated == [message EXCEPT !.is_read = TRUE,
                                                     !.read_at = <<now>>]
                      IN  Answer("OK", <<updated>>, [msgs EXCEPT ![i] = updated])
                 ELSE Answer("OK", <<message>>, msgs)

\* a fault: the row is purged once both parties have deleted the message
DeleteMessage_PurgesOrphans(msgs, message_id, user_id) ==
    LET got == GetMessageById(msgs, message_id, user_id)
    IN  IF got.outcome # "OK" THEN got
        ELSE LET message == got.message[1]
                 i == RowOf(msgs, message_id)
                 flagged == IF message.sender_id = user_id
                            THEN [msgs EXCEPT ![i].is_deleted_by_sender = TRUE]
                            ELSE [msgs EXCEPT ![i].is_deleted_by_recipient = TRUE]
             IN  Answer("NO_CONTENT", NULL,
                     SelectSeq(flagged, LAMBDA m :
                         ~(m.is_deleted_by_sender /\ m.is_deleted_by_recipient)))

\* a fault: the two flags are mixed up, the caller hides the message from
\* the other party
DeleteMessage_FlagsSwapped(msgs, message_id, user_id) ==
    LET got == GetMessageById(msgs, message_id, user_id)
    IN  IF got.outcome # "OK" THEN got
        ELSE LET message == got.message[1]
                 i == RowOf(msgs, message_id)
             IN  IF message.sender_id = user_id
                 THEN Answer("NO_CONTENT", NULL,
                          [msgs EXCEPT ![i].is_deleted_by_recipient = TRUE])
                 ELSE Answer("NO_CONTENT", NULL,
                          [msgs EXCEPT ![i].is_deleted_by_sender = TRUE])

\* a fault: the row is written back whole, which clears the flag of the
\* other party
DeleteMessage_RestoresOther(msgs, message_id, user_id) ==
    LET got == GetMessageById(msgs, message_id, user_id)
    IN  IF got.outcome # "OK" THEN got
        ELSE LET message == got.message[1]
                 i == RowOf(msgs, message_id)
             IN  IF message.sender_id = user_id
                 THEN Answer("NO_CONTENT", NULL,
                          [msgs EXCEPT ![i].is_deleted_by_sender = TRUE,
                                       ![i].is_deleted_by_recipient = FALSE])
                 ELSE Answer("NO_CONTENT", NULL,
                          [msgs EXCEPT ![i].is_deleted_by_recipient = TRUE,
                                       ![i].is_deleted_by_sender = FALSE])

\* delete_message: the access check, then the caller's own flag is set
DeleteMessage(msgs, message_id, user_id) ==
    LET got == GetMessageById(msgs, message_id, user_id)
    IN  IF got.outcome # "OK" THEN got
        ELSE LET message == got.message[1]
                 i == RowOf(msgs, message_id)
             IN  IF message.sender_id = user_id
                 THEN Answer("NO_CONTENT", NULL,
                          [msgs EXCEPT ![i].is_deleted_by_sender = TRUE])
                 ELSE IF message.recipient_id = user_id
                 THEN Answer("NO_CONTENT", NULL,
                          [msgs EXCEPT ![i].is_deleted_by_recipient = TRUE])
                 ELSE Answer("NO_CONTENT", NULL, msgs)

\* the filter of get_inbox_messages
InboxRows(msgs, user_id, unread_only) ==
    {i \in DOMAIN msgs :
        /\ msgs[i].recipient_id = user_id
        /\ ~msgs[i].is_deleted_by_recipient
        /\ unread_only => ~msgs[i].is_read}

\* the filter of get_sent_messages
SentRows(msgs, user_id) ==
    {i \in DOMAIN msgs :
        /\ msgs[i].sender_id = user_id
        /\ ~msgs[i].is_deleted_by_sender}

\* a fault: the rows come oldest first
OrderByCreatedAtDesc_Ascending(msgs, rows) ==
    {s \in [1..Cardinality(rows) -> rows] :
        /\ \A j, k \in DOMAIN s : j # k => s[j] # s[k]
        /\ \A j, k \in DOMAIN s :
              j < k => msgs[s[j]].created_at <= msgs[s[k]].created_at}

\* order_by(Message.created_at.desc()): every order of the rows the database
\* may return; rows created at the same time come in any order
OrderByCreatedAtDesc(msgs, rows) ==
    {s \in [1..Cardinality(rows) -> rows] :
        /\ \A j, k \in DOMAIN s : j # k => s[j] # s[k]
        /\ \A j, k \in DOMAIN s :
              j < k => msgs[s[j]].created_at >= msgs[s[k]].created_at}

\* .offset(skip).limit(limit) of an ordered result
OffsetLimit(s, skip, limit) ==
    SubSeq(s, skip + 1, IF skip + limit < Len(s) THEN skip + limit ELSE Len(s))

\* .all(): the rows themselves
AllRows(msgs, s) == [k \in DOMAIN s |-> msgs[s[k]]]

\* get_inbox_messages: the results the query may give
GetInboxMessages(msgs, user_id, skip, limit, unread_only) ==
    {AllRows(msgs, OffsetLimit(s, skip, limit)) :
        s \in OrderByCreatedAtDesc(msgs, InboxRows(msgs, user_id, unread_only))}

\* get_sent_messages: the results the query may give
GetSentMessages(msgs, user_id, skip, limit) ==
    {AllRows(msgs, OffsetLimit(s, skip, limit)) :
        s \in OrderByCreatedAtDesc(msgs, SentRows(msgs, user_id))}

\* the response of a per-message operation as the caller sees it: the
\* message returned is serialized with its attachments
HandlerResponse(op, user_id, message_id, answer, atts) ==
    [op |-> op, user_id |-> user_id, message_id |-> message_id,
     outcome |-> answer.outcome, status |-> StatusCode(answer.outcome),
     detail |-> answer.detail,
     message |-> answer.message,
     attachments |-> IF answer.message = NULL THEN << >>
                     ELSE AttachmentsOf(atts, answer.message[1].id)]

\* the response of a listing: each message is serialized with its attachments
ListResponse(op, user_id, skip, limit, unread_only, result, atts) ==
    [op |-> op, user_id |-> user_id, skip |-> skip, limit |-> limit,
     unread_only |-> unread_only, outcome |-> "OK", status |-> StatusCode("OK"),
     result |-> result,
     attachments |-> [k \in DOMAIN result |-> AttachmentsOf(atts, result[k].id)]]

\* the sends that fill the store: two senders to recipient 2 and an answer
\* of 2
StoreRequests ==
    {Request(1, MessageCreate(2, "Hi", "text", <<AttItem, AttGold>>)),
     Request(3, MessageCreate(2, "Hi", "body", << >>)),
     Request(2, MessageCreate(1, "Hi", "body", << >>))}

\* the instants at which the store is used: two within the minimum interval
\* of each other and a later one
StoreInstants == {0, 3, 60}

\* time passes while the store is used
TickStore ==
    /\ \E t \in StoreInstants : t > clock /\ clock' = t
    /\ last' = [op |-> "none"]
    /\ before' = Rows(messages, attachments)
    /\ UNCHANGED <<users, messages, attachments, inflight>>

\* the message ids asked for: the stored ones and one never assigned
MessageIds == 1..(Len(messages) + 1)

\* POST /messages while the store is filled
StoreSend ==
    \E req \in StoreRequests :
        LET r == CreateMessage(users, messages, attachments,
                               req.sender_id, req.data, clock)
        IN  /\ Len(r.messages) <= MaxStored
            /\ messages' = r.messages
            /\ attachments' = r.attachments
            /\ last' = SendResponse(req.sender_id, req.data, r.outcome)
            /\ before' = Rows(messages, attachments)
            /\ UNCHANGED <<clock, users, inflight>>

\* GET /messages/{message_id} by one of the viewers
GetMessage(viewers) ==
    \E user_id \in viewers, message_id \in MessageIds :
        LET r == GetMessageById(messages, message_id, user_id)
        IN  /\ messages' = r.messages
            /\ last' = HandlerResponse("get_message_by_id", user_id, message_id, r,
                                    attachments)
            /\ before' = Rows(messages, attachments)
            /\ UNCHANGED <<clock, users, attachments, inflight>>

\* PATCH /messages/{message_id}/read by one of the viewers
MarkRead(viewers) ==
    \E user_id \in viewers, message_id \in MessageIds :
        LET r == MarkAsRead(messages, message_id, user_id, clock)
        IN  /\ messages' = r.messages
            /\ last' = HandlerResponse("mark_as_read", user_id, message_id, r,
                                    attachments)
            /\ before' = Rows(messages, attachments)
            /\ UNCHANGED <<clock, users, attachments, inflight>>

\* DELETE /messages/{message_id} by one of the viewers
SoftDelete(viewers) ==
    \E user_id \in viewers, message_id \in MessageIds :
        LET r == DeleteMessage(messages, message_id, user_id)
        IN  /\ messages' = r.messages
            /\ last' = HandlerResponse("delete_message", user_id, message_id, r,
                                    attachments)
            /\ before' = Rows(messages, attachments)
            /\ UNCHANGED <<clock, users, attachments, inflight>>

\* the page parameters left at their defaults: Query(0, ...), Query(50, ...)
DefaultSkips == {0}

DefaultLimits == {50}

\* GET /messages by one of the viewers, with page parameters from the sets
ListInbox(viewers, skips, limits) ==
    \E user_id \in viewers, skip \in skips, limit \in limits, unread_only \in BOOLEAN :
        \E result \in GetInboxMessages(messages, user_id, skip, limit, unread_only) :
            /\ last' = ListResponse("get_inbox_messages", user_id, skip, limit,
                                    unread_only, result, attachments)
            /\ before' = Rows(messages, attachments)
            /\ UNCHANGED <<clock, users, messages, attachments, inflight>>

\* GET /messages/sent by one of the viewers
ListSent(viewers, skips, limits) ==
    \E user_id \in viewers, skip \in skips, limit \in limits :
        \E result \in GetSentMessages(messages, user_id, skip, limit) :
            /\ last' = ListResponse("get_sent_messages", user_id, skip, limit,
                                    FALSE, result, attachments)
            /\ before' = Rows(messages, attachments)
            /\ UNCHANGED <<clock, users, messages, attachments, inflight>>

NextStore ==
    \/ TickStore
    \/ StoreSend
    \/ GetMessage(Viewers)
    \/ MarkRead(Viewers)
    \/ SoftDelete(Viewers)
    \/ ListInbox(Viewers, DefaultSkips, DefaultLimits)
    \/ ListSent(Viewers, DefaultSkips, DefaultLimits)

SpecStore == Init /\ [][NextStore]_vars

----------------------------------------------------------------------------
(* The listings as functions of the table: get_inbox_messages and          *)
(* get_sent_messages are applied, with every page tried, to every table    *)
(* of a bounded family that sequential sends, mark-reads and soft deletes  *)
(* produce.                                                                *)

\* a bound of the listing model: the rows of the tables listed
MaxListed == 2

\* the users who list: 1 and 2 both send and receive
ListViewers == {1, 2}

\* the page parameters tried: skip from Query(0, ge=0), limit from
\* Query(50, ge=1, le=100)
Skips == {0, 1}

Limits == {1, 50}

\* the sender and the recipient of a listed row
ListPairs == {<<1, 2>>, <<3, 2>>, <<2, 1>>}

\* the creation times of the listed rows
ListInstants == {0, 3}

\* the subjects of the listed rows, one per id: no row repeats another
ListSubjects == <<"Hi", "Re", "Fw", "Ps", "Cc">>

\* what became of a listed row after it was sent: nothing, read by the
\* recipient, soft-deleted by one party, or read and soft-deleted by both
ListFlags ==
    {[is_read |-> FALSE, is_deleted_by_sender |-> FALSE, is_deleted_by_recipient |-> FALSE],
     [is_read |-> TRUE, is_deleted_by_sender |-> FALSE, is_deleted_by_recipient |-> FALSE],
     [is_read |-> FALSE, is_deleted_by_sender |-> TRUE, is_deleted_by_recipient |-> FALSE],
     [is_read |-> FALSE, is_deleted_by_sender |-> FALSE, is_deleted_by_recipient |-> TRUE],
     [is_read |-> TRUE, is_deleted_by_sender |-> TRUE, is_deleted_by_recipient |-> TRUE]}

\* the row with id k, sent by pair[1] to pair[2] at created and marked read,
\* if it was, at read
ListRow(k, pair, created, flags, read) ==
    [NewMessage(SubSeq(ListSubjects, 1, k - 1), pair[1],
                MessageCreate(pair[2], ListSubjects[k], "body", << >>), created)
        EXCEPT !.is_read = flags.is_read,
               !.is_deleted_by_sender = flags.is_deleted_by_sender,
               !.is_deleted_by_recipient = flags.is_deleted_by_recipient,
               !.read_at = IF flags.is_read THEN <<read>> ELSE NULL]

\* the tables listed: ids are assigned in the order of creation, and two
\* rows of one sender lie the minimum interval apart
ListTables ==
    UNION {
        {[k \in 1..n |-> ListRow(k, c[k][1], c[k][2], c[k][3], c[n][2])] :
            c \in {c \in [1..n -> ListPairs \X ListInstants \X ListFlags] :
                      \A j, k \in 1..n :
                          j < k =>
                              /\ c[j][2] <= c[k][2]
                              /\ c[j][1][1] = c[k][1][1] =>
                                    c[k][2] - c[j][2] >= MIN_SECONDS_BETWEEN_MESSAGES}}
        : n \in 0..MaxListed}

\* a store holding one of the tables, at the time its last row was created
InitList ==
    /\ messages \in ListTables
    /\ clock = (IF messages = << >> THEN 0 ELSE messages[Len(messages)].created_at)
    /\ users = (1 :> [is_active |-> TRUE] @@ 2 :> [is_active |-> TRUE]
                @@ 3 :> [is_active |-> TRUE] @@ 4 :> [is_active |-> FALSE])
    /\ attachments = << >>
    /\ inflight = [p \in Procs |-> Idle]
    /\ last = [op |-> "none"]
    /\ before = Rows(messages, << >>)

NextList ==
    \/ ListInbox(ListViewers, Skips, Limits)
    \/ ListSent(ListViewers, Skips, Limits)

SpecList == InitList /\ [][NextList]_vars

----------------------------------------------------------------------------
(* The admission decision as a function of the table: create_message is    *)
(* applied to every table of the family listed above, which holds rows of  *)
(* other senders, rows received by the sender, and rows read or            *)
(* soft-deleted.                                                           *)

\* POST /messages on one of the tables
AdmitSend ==
    \E req \in StoreRequests :
        LET r == CreateMessage(users, messages, attachments,
                               req.sender_id, req.data, clock)
        IN  /\ Len(r.messages) <= MaxListed
            /\ messages' = r.messages
            /\ attachments' = r.attachments
            /\ last' = SendResponse(req.sender_id, req.data, r.outcome)
            /\ before' = Rows(messages, attachments)
            /\ UNCHANGED <<clock, users, inflight>>

NextAdmit == TickStore \/ AdmitSend

SpecAdmit == InitList /\ [][NextAdmit]_vars

----------------------------------------------------------------------------
(* The service boundary: every rejection the handlers raise.  The sends    *)
(* go on until the caps are reached; the per-message operations are tried  *)
(* while the store holds MaxStored messages or fewer.                      *)

\* the sends tried at the boundary: three messages of one sender, and a
\* send to the sender itself, to an inactive user and to no user
BoundaryRequests ==
    {Request(1, MessageCreate(2, "Hi", "body", << >>)),
     Request(1, MessageCreate(2, "Re", "body", << >>)),
     Request(1, MessageCreate(3, "Hi", "body", << >>)),
     Request(1, MessageCreate(1, "Hi", "body", << >>)),
     Request(1, MessageCreate(4, "Hi", "body", << >>)),
     Request(1, MessageCreate(5, "Hi", "body", << >>))}

\* the instants at the boundary: sends at 0 and 3 fill the per-minute cap
\* at 60; sends at 0, 3 and 64 fill the per-hour cap at 367, when they are
\* past the duplicate window and the last minute
BoundaryInstants == {0, 3, 60, 64, 367}

TickBoundary ==
    /\ \E t \in BoundaryInstants : t > clock /\ clock' = t
    /\ last' = [op |-> "none"]
    /\ before' = Rows(messages, attachments)
    /\ UNCHANGED <<users, messages, attachments, inflight>>

\* POST /messages at the boundary
BoundarySend ==
    \E req \in BoundaryRequests :
        LET r == CreateMessage(users, messages, attachments,
                               req.sender_id, req.data, clock)
        IN  /\ Len(r.messages) <= MaxMsgs
            /\ messages' = r.messages
            /\ attachments' = r.attachments
            /\ last' = SendResponse(req.sender_id, req.data, r.outcome)
            /\ before' = Rows(messages, attachments)
            /\ UNCHANGED <<clock, users, inflight>>

\* the users who ask for messages at the boundary: 1 sends every message,
\* 2 receives some and is no party to the others
BoundaryViewers == {1, 2}

\* the per-message operations while the store is small
BoundaryStore ==
    /\ Len(messages) <= MaxStored
    /\ \/ GetMessage(BoundaryViewers)
       \/ MarkRead(BoundaryViewers)
       \/ SoftDelete(BoundaryViewers)

NextBoundary == TickBoundary \/ BoundarySend \/ BoundaryStore

SpecBoundary == Init /\ [][NextBoundary]_vars

----------------------------------------------------------------------------
(* mark_as_read served concurrently: each request reads the row in its own *)
(* session (lines 233-242) and, having found it unread, writes is_read and *)
(* read_at and commits (lines 243-246).  The ORM's UPDATE is keyed by the  *)
(* row's id alone and sets the two changed columns.                        *)

\* lines 233-242 of one request: the access check, the recipient test and
\* the test of is_read, all on the committed row
MarkBegin(p) ==
    /\ inflight[p] = Idle
    /\ \E user_id \in Viewers, message_id \in MessageIds :
        LET got == GetMessageById(messages, message_id, user_id)
            refused == IF got.outcome # "OK" THEN got
                       ELSE IF got.message[1].recipient_id # user_id
                       THEN Refusal("FORBIDDEN", "Only recipient can mark message as read", messages)
                       ELSE got
        IN  IF refused.outcome = "OK" /\ ~got.message[1].is_read
            THEN /\ inflight' = [inflight EXCEPT ![p] =
                        [pc |-> "write", user_id |-> user_id,
                         message_id |-> message_id, now |-> clock]]
                 /\ UNCHANGED <<last, before>>
            ELSE /\ last' = HandlerResponse("mark_as_read", user_id, message_id,
                                            refused, attachments)
                 /\ before' = Rows(messages, attachments)
                 /\ UNCHANGED inflight
    /\ UNCHANGED <<clock, users, messages, attachments>>

\* lines 243-246 of that request: the two assignments, the commit and the
\* refresh.  datetime.utcnow() is read after the row and before the commit.
MarkCommit(p) ==
    /\ inflight[p].pc = "write"
    /\ \E stamp \in {inflight[p].now, clock} :
        LET i == RowOf(messages, inflight[p].message_id)
            updated == [messages[i] EXCEPT !.is_read = TRUE, !.read_at = <<stamp>>]
        IN  /\ messages' = [messages EXCEPT ![i] = updated]
            /\ last' = HandlerResponse("mark_as_read", inflight[p].user_id,
                           inflight[p].message_id,
                           Answer("OK", <<updated>>, messages'), attachments)
    /\ before' = Rows(messages, attachments)
    /\ inflight' = [inflight EXCEPT ![p] = Idle]
    /\ UNCHANGED <<clock, users, attachments>>

NextConcRead ==
    \/ TickStore
    \/ StoreSend
    \/ \E p \in Procs : MarkBegin(p)
    \/ \E p \in Procs : MarkCommit(p)

SpecConcRead == Init /\ [][NextConcRead]_vars

----------------------------------------------------------------------------
(* delete_message and mark_as_read served concurrently on one message.     *)
(* Each request loads the row in its own session through                   *)
(* get_message_by_id (lines 233, 257), assigns its own attributes on the   *)
(* loaded object (243-244, 259-262) and commits (245, 264).  The commit    *)
(* flushes an UPDATE that is keyed by the row's id and sets the attributes *)
(* the session has assigned; the other columns are left as committed.      *)

\* the sessions that serve the three requests of the two parties
WriteSlots == {"w1", "w2", "w3"}

\* the callers: the sender, the recipient and a user who is no party
WriteCallers == {1, 2, 3}

\* the store the requests meet: one message of 1 to 2, unread, undeleted
WriteStore(usrs) ==
    CreateMessage(usrs, << >>, << >>, 1,
        MessageCreate(2, "Hi", "text", <<AttItem, AttGold>>), 0)

InitWrite ==
    /\ clock = 0
    /\ users = (1 :> [is_active |-> TRUE] @@ 2 :> [is_active |-> TRUE]
                @@ 3 :> [is_active |-> TRUE] @@ 4 :> [is_active |-> FALSE])
    /\ messages = WriteStore(users).messages
    /\ attachments = WriteStore(users).attachments
    /\ inflight = [p \in WriteSlots |-> Idle]
    /\ last = [op |-> "none"]
    /\ before = Rows(messages, attachments)

\* a session past its checks: the object it holds and the attributes it
\* has assigned
Loaded(op, user_id, message_id, loaded, changed) ==
    [pc |-> "flush", op |-> op, user_id |-> user_id, message_id |-> message_id,
     loaded |-> loaded, changed |-> changed]

\* a session whose request has been answered
Done(op, user_id, message_id, outcome) ==
    [pc |-> "done", op |-> op, user_id |-> user_id, message_id |-> message_id,
     outcome |-> outcome]

\* a fault: the UPDATE writes every column of the object as the session
\* holds it
FlushUpdate_WholeRow(row, loaded, changed) == loaded

\* the UPDATE of db.commit(): the assigned attributes are written over the
\* committed row
FlushUpdate(row, loaded, changed) ==
    [c \in DOMAIN row |-> IF c \in changed THEN loaded[c] ELSE row[c]]

\* lines 257-262 of delete_message: the access check on the committed row
\* and the assignment of the caller's flag
DeleteLoad(p) ==
    /\ inflight[p] = Idle
    /\ \E user_id \in WriteCallers, message_id \in MessageIds :
        LET got == GetMessageById(messages, message_id, user_id)
        IN  IF got.outcome = "OK"
            THEN LET message == got.message[1]
                 IN  /\ inflight' = [inflight EXCEPT ![p] =
                            IF message.sender_id = user_id
                            THEN Loaded("delete_message", user_id, message_id,
                                     [message EXCEPT !.is_deleted_by_sender = TRUE],
                                     {"is_deleted_by_sender"})
                            ELSE Loaded("delete_message", user_id, message_id,
                                     [message EXCEPT !.is_deleted_by_recipient = TRUE],
                                     {"is_deleted_by_recipient"})]
                     /\ UNCHANGED <<last, before>>
            ELSE /\ last' = HandlerResponse("delete_message", user_id,
                                            message_id, got, attachments)
                 /\ before' = Rows(messages, attachments)
                 /\ inflight' = [inflight EXCEPT ![p] =
                        Done("delete_message", user_id, message_id, got.outcome)]
    /\ UNCHANGED <<clock, users, messages, attachments>>

\* line 264 of delete_message: the commit, answered 204
DeleteFlush(p) ==
    /\ inflight[p].pc = "flush"
    /\ inflight[p].op = "delete_message"
    /\ LET i == RowOf(messages, inflight[p].message_id)
       IN  /\ messages' = [messages EXCEPT ![i] =
                  FlushUpdate(messages[i], inflight[p].loaded, inflight[p].changed)]
           /\ last' = HandlerResponse("delete_message", inflight[p].user_id,
                          inflight[p].message_id,
                          Answer("NO_CONTENT", NULL, messages'), attachments)
    /\ before' = Rows(messages, attachments)
    /\ inflight' = [inflight EXCEPT ![p] =
           Done("delete_message", inflight[p].user_id, inflight[p].message_id,
                "NO_CONTENT")]
    /\ UNCHANGED <<clock, users, attachments>>

\* lines 233-244 of mark_as_read: the access check, the recipient test and
\* the test of is_read on the committed row, then the two assignments; a
\* message found read is returned as it is
MarkLoad(p) ==
    /\ inflight[p] = Idle
    /\ \E user_id \in WriteCallers, message_id \in MessageIds :
        LET got == GetMessageById(messages, message_id, user_id)
            checked == IF got.outcome # "OK" THEN got
                       ELSE IF got.message[1].recipient_id # user_id
                       THEN Refusal("FORBIDDEN", "Only recipient can mark message as read", messages)
                       ELSE got
        IN  IF checked.outcome = "OK" /\ ~got.message[1].is_read
            THEN /\ inflight' = [inflight EXCEPT ![p] =
                        Loaded("mark_as_read", user_id, message_id,
                            [got.message[1] EXCEPT !.is_read = TRUE,
                                                   !.read_at = <<clock>>],
                            {"is_read", "read_at"})]
                 /\ UNCHANGED <<last, before>>
            ELSE /\ last' = HandlerResponse("mark_as_read", user_id, message_id,
                                            checked, attachments)
                 /\ before' = Rows(messages, attachments)
                 /\ inflight' = [inflight EXCEPT ![p] =
                        Done("mark_as_read", user_id, message_id, checked.outcome)]
    /\ UNCHANGED <<clock, users, messages, attachments>>

\* lines 245-248 of mark_as_read: the commit and the refresh, which reads
\* the committed row back
MarkFlush(p) ==
    /\ inflight[p].pc = "flush"
    /\ inflight[p].op = "mark_as_read"
    /\ LET i == RowOf(messages, inflight[p].message_id)
           updated == FlushUpdate(messages[i], inflight[p].loaded, inflight[p].changed)
       IN  /\ messages' = [messages EXCEPT ![i] = updated]
           /\ last' = HandlerResponse("mark_as_read", inflight[p].user_id,
                          inflight[p].message_id,
                          Answer("OK", <<updated>>, messages'), attachments)
    /\ before' = Rows(messages, attachments)
    /\ inflight' = [inflight EXCEPT ![p] =
           Done("mark_as_read", inflight[p].user_id, inflight[p].message_id, "OK")]
    /\ UNCHANGED <<clock, users, attachments>>

NextWrite ==
    \/ \E p \in WriteSlots : DeleteLoad(p)
    \/ \E p \in WriteSlots : DeleteFlush(p)
    \/ \E p \in WriteSlots : MarkLoad(p)
    \/ \E p \in WriteSlots : MarkFlush(p)

SpecWrite == InitWrite /\ [][NextWrite]_vars

----------------------------------------------------------------------------
(* create_message as a transaction (lines 124-151) next to concurrent      *)
(* readers.  The session is opened with autocommit=False: db.flush() sends *)
(* the INSERT of the message inside the open transaction, db.commit()      *)
(* sends the INSERTs of the attachments and commits, and an exception      *)
(* before the commit ends in get_db's rollback.  The other sessions read   *)
(* committed rows only.                                                    *)

\* a bound of the transaction model: the sends committed or under way
MaxTxn == 2

\* the requests of the transaction model: a message with two attachments
\* and an answer with one
TxnRequests ==
    {Request(1, MessageCreate(2, "Hi", "text", <<AttItem, AttGold>>)),
     Request(2, MessageCreate(1, "Re", "text", <<AttGold>>))}

\* the users who read while the sends are under way: both receive and send
Readers == {1, 2}

\* the sends that have passed their checks and not yet ended
Open == {p \in Procs : inflight[p].pc \in {"insert", "flushed"}}

\* the id a new row gets: one that no row committed or written holds; which
\* one the database hands out is of no account, the least is taken
FreshId(ids) ==
    CHOOSE n \in 1..(Cardinality(ids) + 1) :
        n \notin ids /\ \A m \in 1..(n - 1) : m \in ids

\* the ids of the message rows committed or flushed by an open transaction
MessageIdsInUse ==
    {messages[i].id : i \in DOMAIN messages}
        \cup {inflight[p].message.id : p \in {q \in Procs : inflight[q].pc = "flushed"}}

\* the ids of the attachment rows committed or written by an open transaction
AttachmentIdsInUse ==
    {attachments[k].id : k \in DOMAIN attachments}
        \cup UNION {{inflight[p].written[k].id : k \in DOMAIN inflight[p].written} :
                       p \in {q \in Procs : inflight[q].pc = "flushed"}}

\* a fault: db.commit() in the place of db.flush(), the message row is
\* committed before its attachments are written
Flush_Commits(committed, row) == Append(committed, row)

\* db.flush(): the rows the other sessions read after it, the flushed row
\* is not among them
Flush(committed, row) == committed

\* db.commit(): the rows the other sessions read after it
Commit(committed, rows) == committed \o rows

\* lines 98-122 of one request: the checks, on the committed rows
TxnBegin(p) ==
    /\ inflight[p] = Idle
    /\ \E req \in TxnRequests :
        LET outcome == CreateMessageCheck(users, messages, req.sender_id,
                                          req.data, clock)
        IN  IF outcome = "ADMITTED"
            THEN /\ Len(messages) + Cardinality(Open) < MaxTxn
                 /\ inflight' = [inflight EXCEPT ![p] =
                        [pc |-> "insert", sender_id |-> req.sender_id,
                         data |-> req.data]]
                 /\ UNCHANGED <<last, before>>
            ELSE /\ last' = SendResponse(req.sender_id, req.data, outcome)
                 /\ before' = Rows(messages, attachments)
                 /\ UNCHANGED inflight
    /\ UNCHANGED <<clock, users, messages, attachments>>

\* lines 126-135: the message row is built, added and flushed; it gets its
\* id and its created_at, and stays uncommitted
TxnFlush(p) ==
    /\ inflight[p].pc = "insert"
    /\ LET row == [NewMessage(messages, inflight[p].sender_id, inflight[p].data, clock)
                      EXCEPT !.id = FreshId(MessageIdsInUse)]
       IN  /\ inflight' = [inflight EXCEPT ![p] =
                   [pc |-> "flushed", sender_id |-> inflight[p].sender_id,
                    data |-> inflight[p].data,
                    message |-> row, written |-> << >>]]
           /\ messages' = Flush(messages, row)
    /\ UNCHANGED <<clock, users, attachments, last, before>>

\* lines 138-148, one attachment: the row is added and, in the flush of
\* db.commit(), written, still uncommitted
TxnWrite(p) ==
    /\ inflight[p].pc = "flushed"
    /\ Len(inflight[p].written) < Len(inflight[p].data.attachments)
    /\ LET k == Len(inflight[p].written) + 1
           row == [NewAttachments(<< >>, inflight[p].message.id,
                                  inflight[p].data.attachments)[k]
                      EXCEPT !.id = FreshId(AttachmentIdsInUse)]
       IN  inflight' = [inflight EXCEPT ![p].written = Append(@, row)]
    /\ UNCHANGED <<clock, users, messages, attachments, last, before>>

\* line 148, the COMMIT, and the response: the message row and all its
\* attachment rows become readable together
TxnCommit(p) ==
    /\ inflight[p].pc = "flushed"
    /\ Len(inflight[p].written) = Len(inflight[p].data.attachments)
    /\ messages' = (IF \E i \in DOMAIN messages : messages[i].id = inflight[p].message.id
                    THEN messages
                    ELSE Commit(messages, <<inflight[p].message>>))
    /\ attachments' = Commit(attachments, inflight[p].written)
    /\ last' = SendResponse(inflight[p].sender_id, inflight[p].data, "ADMITTED")
    /\ before' = Rows(messages, attachments)
    /\ inflight' = [inflight EXCEPT ![p] = Idle]
    /\ UNCHANGED <<clock, users>>

\* the storage fails after the flush and before the commit: the exception
\* leaves create_message and get_db rolls the transaction back
TxnFail(p) ==
    /\ inflight[p].pc = "flushed"
    /\ last' = [op |-> "create_message", user_id |-> inflight[p].sender_id,
                data |-> inflight[p].data, outcome |-> "INTERNAL", status |-> 500,
                message_id |-> inflight[p].message.id]
    /\ before' = Rows(messages, attachments)
    /\ inflight' = [inflight EXCEPT ![p] = Idle]
    /\ UNCHANGED <<clock, users, messages, attachments>>

NextTxn ==
    \/ \E p \in Procs : TxnBegin(p)
    \/ \E p \in Procs : TxnFlush(p)
    \/ \E p \in Procs : TxnWrite(p)
    \/ \E p \in Procs : TxnCommit(p)
    \/ \E p \in Procs : TxnFail(p)
    \/ GetMessage(Readers)
    \/ ListInbox(Readers, DefaultSkips, DefaultLimits)
    \/ ListSent(Readers, DefaultSkips, DefaultLimits)

SpecTxn == Init /\ [][NextTxn]_vars

----------------------------------------------------------------------------
(* Sends at the edges of the windows: a request arrives exactly one        *)
(* minute, one duplicate window and one hour after a stored message, and   *)
(* the database stamps some rows ahead of the application clock.           *)

\* the seconds the database clock is ahead when a row is stamped
EdgeSkews == {0, 70}

\* the instants of the requests: three sends at 0, 3 and 6, and the edges
\* of the minute, the duplicate window and the hour after the send at 0
EdgeInstants == {0, 3, 6, SECONDS_PER_MINUTE, DUPLICATE_MESSAGE_WINDOW_SECONDS,
                 SECONDS_PER_HOUR}

\* the sends of one sender, each different from the others
EdgeRequests ==
    {Request(1, MessageCreate(2, "Hi", "body", << >>)),
     Request(1, MessageCreate(2, "Re", "body", << >>)),
     Request(1, MessageCreate(3, "Hi", "body", << >>))}

TickEdge ==
    /\ \E t \in EdgeInstants : t > clock /\ clock' = t
    /\ last' = [op |-> "none"]
    /\ before' = Rows(messages, attachments)
    /\ UNCHANGED <<users, messages, attachments, inflight>>

\* POST /messages: the checks run at the application's time, the row is
\* stamped with the database's time
EdgeSend ==
    \E req \in EdgeRequests, skew \in EdgeSkews :
        LET outcome == CreateMessageCheck(users, messages, req.sender_id,
                                          req.data, clock)
            r == CreateMessageInsert(messages, attachments, req.sender_id,
                                     req.data, clock + skew)
        IN  /\ IF outcome = "ADMITTED"
               THEN /\ Len(messages) < MaxMsgs
                    /\ messages' = r.messages
                    /\ attachments' = r.attachments
               ELSE UNCHANGED <<messages, attachments>>
            /\ last' = SendResponse(req.sender_id, req.data, outcome)
            /\ before' = Rows(messages, attachments)
            /\ UNCHANGED <<clock, users, inflight>>

NextEdge == TickEdge \/ EdgeSend

SpecEdge == Init /\ [][NextEdge]_vars

----------------------------------------------------------------------------
(* Sends after a long silence: a sender fills the per-hour cap, some rows  *)
(* stamped ahead of the application clock, and asks again more than an     *)
(* hour later.                                                             *)

\* the instants of the requests: the sends at 0, 3 and 64 fill the per-hour
\* cap, the last instant lies more than an hour after the row stamped at
\* 64 with the database clock ahead
IdleInstants == {0, 3, 64, 3740}

\* the sends of sender 1, each different from the others, one of sender 2
\* and a send to an inactive user
IdleRequests ==
    {Request(1, MessageCreate(2, "Hi", "body", << >>)),
     Request(1, MessageCreate(2, "Re", "body", << >>)),
     Request(1, MessageCreate(3, "Hi", "body", << >>)),
     Request(2, MessageCreate(1, "Hi", "body", << >>)),
     Request(1, MessageCreate(4, "Hi", "body", << >>))}

TickIdle ==
    /\ \E t \in IdleInstants : t > clock /\ clock' = t
    /\ last' = [op |-> "none"]
    /\ before' = Rows(messages, attachments)
    /\ UNCHANGED <<users, messages, attachments, inflight>>

\* POST /messages: the checks run at the application's time, the row is
\* stamped with the database's time; the store holds one message more than
\* the per-hour cap
IdleSend ==
    \E req \in IdleRequests, skew \in EdgeSkews :
        LET outcome == CreateMessageCheck(users, messages, req.sender_id,
                                          req.data, clock)
            r == CreateMessageInsert(messages, attachments, req.sender_id,
                                     req.data, clock + skew)
        IN  /\ IF outcome = "ADMITTED"
               THEN /\ Len(messages) <= MAX_MESSAGES_PER_HOUR
                    /\ messages' = r.messages
                    /\ attachments' = r.attachments
               ELSE UNCHANGED <<messages, attachments>>
            /\ last' = SendResponse(req.sender_id, req.data, outcome)
            /\ before' = Rows(messages, attachments)
            /\ UNCHANGED <<clock, users, inflight>>

NextIdle == TickIdle \/ IdleSend

SpecIdle == Init /\ [][NextIdle]_vars

----------------------------------------------------------------------------
(* Sends next to soft deletes: the sender and the recipient delete the     *)
(* messages a later send of the sender is checked against.                 *)

\* the sends of one sender: two subjects to one recipient and a message to
\* another recipient
DeletedRequests ==
    {Request(1, MessageCreate(2, "Hi", "body", << >>)),
     Request(1, MessageCreate(2, "Re", "body", << >>)),
     Request(1, MessageCreate(3, "Hi", "body", << >>))}

\* the users who delete: the sender of every message and a recipient
DeletedViewers == {1, 2}

DeletedSend ==
    \E req \in DeletedRequests :
        LET r == CreateMessage(users, messages, attachments,
                               req.sender_id, req.data, clock)
        IN  /\ Len(r.messages) <= MaxMsgs
            /\ messages' = r.messages
            /\ attachments' = r.attachments
            /\ last' = SendResponse(req.sender_id, req.data, r.outcome)
            /\ before' = Rows(messages, attachments)
            /\ UNCHANGED <<clock, users, inflight>>

NextDeleted == TickBoundary \/ DeletedSend \/ SoftDelete(DeletedViewers)

SpecDeleted == Init /\ [][NextDeleted]_vars

----------------------------------------------------------------------------
(* The per-message operations and the listings on a store of two messages, *)
(* one in each direction between users 1 and 2, so that each operation has *)
(* a target and another message next to it.                                *)

\* the store after user 1 sent a message with two attachments to user 2 and
\* user 2 sent one without attachments to user 1, both at time 0
FrameStore(usrs) ==
    LET first == CreateMessage(usrs, << >>, << >>, 1,
                     MessageCreate(2, "Hi", "text", <<AttItem, AttGold>>), 0)
    IN  CreateMessage(usrs, first.messages, first.attachments, 2,
            MessageCreate(1, "Re", "body", << >>), 0)

InitFrame ==
    /\ clock = 0
    /\ users = (1 :> [is_active |-> TRUE] @@ 2 :> [is_active |-> TRUE]
                @@ 3 :> [is_active |-> TRUE] @@ 4 :> [is_active |-> FALSE])
    /\ messages = FrameStore(users).messages
    /\ attachments = FrameStore(users).attachments
    /\ inflight = [p \in Procs |-> Idle]
    /\ last = [op |-> "none"]
    /\ before = Rows(messages, attachments)

\* the instants at which the two messages are read and deleted
FrameInstants == {0, 3, 60}

TickFrame ==
    /\ \E t \in FrameInstants : t > clock /\ clock' = t
    /\ last' = [op |-> "none"]
    /\ before' = Rows(messages, attachments)
    /\ UNCHANGED <<users, messages, attachments, inflight>>

NextFrame ==
    \/ TickFrame
    \/ GetMessage(Viewers)
    \/ MarkRead(Viewers)
    \/ SoftDelete(Viewers)
    \/ ListInbox(Viewers, DefaultSkips, DefaultLimits)
    \/ ListSent(Viewers, DefaultSkips, DefaultLimits)

SpecFrame == InitFrame /\ [][NextFrame]_vars

----------------------------------------------------------------------------
(* Registration and login (app/services/auth_service.py).  Here the rows   *)
(* of the users table carry username, email and hashed_password next to    *)
(* is_active; username and email are unique columns (app/models/user.py),  *)
(* so a commit that would store a second row with either fails with an     *)
(* IntegrityError.  A registration is served in two steps, the existence   *)
(* check and the commit, so that two registrations can pass the check      *)
(* before either commits.                                                  *)

\* the salts bcrypt may draw for a hash
Salts == {"s1", "s2"}

\* pwd_context.hash: a bcrypt hash keeps its salt and a digest of salt and
\* password
GetPasswordHash(password, salt) ==
    [scheme |-> "bcrypt", salt |-> salt, digest |-> <<salt, password>>]

\* pwd_context.verify: the digest of the stored salt and the given password
\* is the stored digest
VerifyPassword(plain_password, hashed_password) ==
    hashed_password.digest = <<hashed_password.salt, plain_password>>

\* the users of tests/conftest.py: test_user, test_user2 and inactive_user
AuthUsers ==
    << [username |-> "testuser", email |-> "test@example.com",
        hashed_password |-> GetPasswordHash("testpassword123", "s1"),
        is_active |-> TRUE],
       [username |-> "testuser2", email |-> "test2@example.com",
        hashed_password |-> GetPasswordHash("testpassword123", "s2"),
        is_active |-> TRUE],
       [username |-> "inactive", email |-> "inactive@example.com",
        hashed_password |-> GetPasswordHash("testpassword123", "s1"),
        is_active |-> FALSE] >>

\* the validated UserCreate bodies: usernames and emails that are taken and
\* that are free, in every combination; ("testuser2", "test@example.com")
\* takes its username from one user and its email from another
RegisterRequests ==
    [username : {"testuser", "testuser2", "newuser", "differentuser"},
     email : {"test@example.com", "newuser@example.com",
              "different@example.com"},
     password : {"password123"}]

\* the credentials given to the login
LoginUsernames == {"testuser", "inactive", "nonexistent", "newuser"}

LoginPasswords == {"testpassword123", "wrongpassword", "password123"}

\* the rows a query may return with .first(): any of the rows that match,
\* the query has no ORDER BY; 0 stands for None
First(matching) == IF matching = {} THEN {0} ELSE matching

\* the rows of filter((User.username == ...) | (User.email == ...))
ExistingUsers(us, user_data) ==
    {i \in DOMAIN us : \/ us[i].username = user_data.username
                       \/ us[i].email = user_data.email}

\* the existence check of register_user, on the row the query returned
RegisterCheck(us, user_data, existing_user) ==
    IF existing_user = 0 THEN "OK"
    ELSE IF us[existing_user].username = user_data.username
         THEN "USERNAME_TAKEN"
         ELSE "EMAIL_TAKEN"

\* a commit of db_user fails on the unique index of username alone
UniqueViolation_UsernameOnly(us, db_user) ==
    \E i \in DOMAIN us : us[i].username = db_user.username

\* a commit of db_user fails on the unique index of username or of email
UniqueViolation(us, db_user) ==
    \E i \in DOMAIN us : \/ us[i].username = db_user.username
                         \/ us[i].email = db_user.email

\* the status of a registration: 201 of the route, 400 of each HTTPException
RegisterStatus(outcome) == IF outcome = "OK" THEN 201 ELSE 400

\* the detail of each HTTPException of register_user
RegisterDetail(outcome) ==
    CASE outcome = "USERNAME_TAKEN" -> <<"Username already registered">>
      [] outcome = "EMAIL_TAKEN" -> <<"Email already registered">>
      [] outcome = "INTEGRITY_ERROR"
            -> <<"User with this username or email already exists">>
      [] OTHER -> NULL

\* the level of the record register_user logs on each way out
RegisterLog(outcome) ==
    CASE outcome = "OK" -> <<"info">>
      [] outcome = "INTEGRITY_ERROR" -> <<"error">>
      [] OTHER -> <<"warning">>

\* what register_user gave back at a step: the HTTPException or the user
RegisterResponse(step, user_data, outcome, user) ==
    [op |-> "register_user", step |-> step, user_data |-> user_data,
     outcome |-> outcome, status |-> RegisterStatus(outcome),
     detail |-> RegisterDetail(outcome), log |-> RegisterLog(outcome),
     user |-> user]

\* authenticate_user with the password tested after the activity
AuthenticateUser_ActiveFirst(us, username, password, user) ==
    LET answer(outcome, status, detail, found) ==
            [op |-> "authenticate_user", username |-> username,
             password |-> password, outcome |-> outcome, status |-> status,
             detail |-> detail, user |-> found]
    IN  IF user = 0
        THEN answer("NONE", 401, <<"Incorrect username or password">>, NULL)
        ELSE IF ~us[user].is_active
        THEN answer("FORBIDDEN", 403, <<"Inactive user">>, NULL)
        ELSE IF ~VerifyPassword(password, us[user].hashed_password)
        THEN answer("NONE", 401, <<"Incorrect username or password">>, NULL)
        ELSE answer("OK", 200, NULL, <<user>>)

\* authenticate_user on the row the query returned: None for no row and for
\* a password that does not verify (the login route answers None with 401),
\* 403 for an inactive user, the user otherwise
AuthenticateUser(us, username, password, user) ==
    LET answer(outcome, status, detail, found) ==
            [op |-> "authenticate_user", username |-> username,
             password |-> password, outcome |-> outcome, status |-> status,
             detail |-> detail, user |-> found]
    IN  IF user = 0
        THEN answer("NONE", 401, <<"Incorrect username or password">>, NULL)
        ELSE IF ~VerifyPassword(password, us[user].hashed_password)
        THEN answer("NONE", 401, <<"Incorrect username or password">>, NULL)
        ELSE IF ~us[user].is_active
        THEN answer("FORBIDDEN", 403, <<"Inactive user">>, NULL)
        ELSE answer("OK", 200, NULL, <<user>>)

\* the users table before the first registration
InitAuth ==
    /\ clock = 0
    /\ users = AuthUsers
    /\ messages = << >>
    /\ attachments = << >>
    /\ inflight = [p \in Procs |-> Idle]
    /\ last = [op |-> "none"]
    /\ before = [users |-> AuthUsers]

\* register_user up to its try block: the existence check; a registration
\* that passes goes on to its commit
RegisterBegin(p) ==
    /\ inflight[p] = Idle
    /\ \E user_data \in RegisterRequests :
        \E existing_user \in First(ExistingUsers(users, user_data)) :
            LET outcome == RegisterCheck(users, user_data, existing_user)
            IN  IF outcome = "OK"
                THEN /\ inflight' = [inflight EXCEPT
                            ![p] = [pc |-> "commit", user_data |-> user_data]]
                     /\ UNCHANGED <<last, before>>
                ELSE /\ last' = RegisterResponse("check", user_data, outcome,
                                                 NULL)
                     /\ before' = [users |-> users]
                     /\ UNCHANGED inflight
    /\ UNCHANGED <<clock, users, messages, attachments>>

\* the try block of register_user: hash, add, commit; an IntegrityError is
\* rolled back, logged and answered, and the handler returns
RegisterCommit(p) ==
    /\ inflight[p].pc = "commit"
    /\ \E salt \in Salts :
        LET user_data == inflight[p].user_data
            db_user == [username |-> user_data.username,
                        email |-> user_data.email,
                        hashed_password |->
                            GetPasswordHash(user_data.password, salt),
                        is_active |-> TRUE]
        IN  IF UniqueViolation(users, db_user)
            THEN /\ last' = RegisterResponse("commit", user_data,
                                             "INTEGRITY_ERROR", NULL)
                 /\ UNCHANGED users
            ELSE /\ users' = Append(users, db_user)
                 /\ last' = RegisterResponse("commit", user_data, "OK",
                                             <<Len(users) + 1>>)
    /\ before' = [users |-> users]
    /\ inflight' = [inflight EXCEPT ![p] = Idle]
    /\ UNCHANGED <<clock, messages, attachments>>

\* authenticate_user, as the login route calls it
Authenticate ==
    /\ \E username \in LoginUsernames, password \in LoginPasswords :
        \E user \in First({i \in DOMAIN users :
                              users[i].username = username}) :
            last' = AuthenticateUser(users, username, password, user)
    /\ before' = [users |-> users]
    /\ UNCHANGED <<clock, users, messages, attachments, inflight>>

NextAuth ==
    \/ \E p \in Procs : RegisterBegin(p)
    \/ \E p \in Procs : RegisterCommit(p)
    \/ Authenticate

SpecAuth == InitAuth /\ [][NextAuth]_vars

----------------------------------------------------------------------------
(* Vocabulary of the properties.  A send is judged from the rows it found  *)
(* (before) and the response it gave (last); the clock stands still from   *)
(* the request to the next tick, so clock is the time of the request.      *)

\* the handler that ran last served a send
Served == last.op = "create_message"

\* the messages of a sender that the send found stored
SentBy(s) == {i \in DOMAIN before.messages : before.messages[i].sender_id = s}

\* the seconds from the creation of found message i to the request
Age(i) == clock - before.messages[i].created_at

\* stored message i is what sender s asks to send with d
Identical(i, s, d) ==
    /\ before.messages[i].sender_id = s
    /\ before.messages[i].recipient_id = d.recipient_id
    /\ before.messages[i].subject = d.subject
    /\ before.messages[i].body = d.body

\* the recipient of d exists, is active and is not the sender
ValidRecipient(s, d) ==
    /\ d.recipient_id \in DOMAIN users
    /\ users[d.recipient_id].is_active
    /\ d.recipient_id # s

\* d repeats a message s sent inside the duplicate window
IsRepeat(s, d) ==
    \E i \in SentBy(s) :
        Identical(i, s, d) /\ Age(i) <= DUPLICATE_MESSAGE_WINDOW_SECONDS

\* s sent a message less than the minimum interval ago
TooSoon(s) ==
    \E i \in SentBy(s) : Age(i) >= 0 /\ Age(i) < MIN_SECONDS_BETWEEN_MESSAGES

\* how many messages s sent in the last w seconds
SentWithin(s, w) == Cardinality({i \in SentBy(s) : Age(i) <= w})

AtMinuteCap(s) == SentWithin(s, SECONDS_PER_MINUTE) >= MAX_MESSAGES_PER_MINUTE

AtHourCap(s) == SentWithin(s, SECONDS_PER_HOUR) >= MAX_MESSAGES_PER_HOUR

\* the response is the rejection (or admission) o with status code c
Answers(o, c) == last.outcome = o /\ last.status = c

----------------------------------------------------------------------------
\* C1: concurrent sends of one sender are serialized: when a send commits,
\* every stored message of its sender was in the history its checks read.
C1_SendsSerialized ==
    [][\A p \in Procs :
          (inflight[p].pc = "insert" /\ inflight'[p] = Idle) =>
              \A i \in DOMAIN messages :
                  messages[i].sender_id = inflight[p].sender_id
                      => i <= inflight[p].checked]_vars

\* C2: an identical message sent again by the same sender less than
\* DUPLICATE_MESSAGE_WINDOW_SECONDS after an admitted one is rejected as
\* DUPLICATE with status 400, whatever was sent in between.
C2_DuplicateRejected ==
    Served =>
          LET s == last.user_id
              d == last.data
          IN  (\E i \in SentBy(s) :
                  /\ Identical(i, s, d)
                  /\ Age(i) >= 0
                  /\ Age(i) < DUPLICATE_MESSAGE_WINDOW_SECONDS)
                  => Answers("DUPLICATE", 400)

\* a duplicate was rejected a minute or more after the original, with another
\* message of the sender stored in between
C2_Witness ==
    /\ last.op = "create_message"
    /\ last.outcome = "DUPLICATE"
    /\ \E i, j \in SentBy(last.user_id) :
          /\ i < j
          /\ Identical(i, last.user_id, last.data)
          /\ ~Identical(j, last.user_id, last.data)
          /\ Age(i) >= SECONDS_PER_MINUTE

\* C3: of two different messages of one sender to valid recipients, the
\* second is rejected as MIN_INTERVAL (429) when it comes less than
\* MIN_SECONDS_BETWEEN_MESSAGES after the first, and is admitted when it
\* comes that interval or more after it (the interval itself included) and
\* neither cap is reached.
C3_MinInterval ==
    Served =>
          LET s == last.user_id
              d == last.data
          IN  (ValidRecipient(s, d) /\ ~IsRepeat(s, d)) =>
                  /\ TooSoon(s) => Answers("MIN_INTERVAL", 429)
                  /\ (/\ \A i \in SentBy(s) :
                            Age(i) >= MIN_SECONDS_BETWEEN_MESSAGES
                      /\ ~AtMinuteCap(s)
                      /\ ~AtHourCap(s)) => Answers("ADMITTED", 201)

\* two messages of one sender were admitted exactly the minimum interval
\* apart, and a third send right after the second was rejected as MIN_INTERVAL
C3_Witness ==
    /\ last.op = "create_message"
    /\ last.outcome = "MIN_INTERVAL"
    /\ \E i, j \in SentBy(last.user_id) :
          /\ before.messages[j].created_at - before.messages[i].created_at
                 = MIN_SECONDS_BETWEEN_MESSAGES
          /\ Age(j) < MIN_SECONDS_BETWEEN_MESSAGES

\* C4 as stated: past the duplicate and min-interval checks a send is
\* rejected as RATE_MINUTE exactly when the sender has
\* MAX_MESSAGES_PER_MINUTE or more messages in the last 60 s, and with one
\* message less than the cap in that window it is admitted.
C4_AsStated ==
    Served =>
          LET s == last.user_id
              d == last.data
          IN  (ValidRecipient(s, d) /\ ~IsRepeat(s, d) /\ ~TooSoon(s)) =>
                  /\ last.outcome = "RATE_MINUTE" <=> AtMinuteCap(s)
                  /\ SentWithin(s, SECONDS_PER_MINUTE) = MAX_MESSAGES_PER_MINUTE - 1
                         => last.outcome = "ADMITTED"

\* C4, amended: past the duplicate and min-interval checks a send is rejected
\* as RATE_MINUTE (429) exactly when the sender has MAX_MESSAGES_PER_MINUTE
\* or more messages in the last 60 s; with one message less than the cap in
\* that window it is never RATE_MINUTE, and it is admitted when the per-hour
\* cap is not reached either.
C4_MinuteCap ==
    Served =>
          LET s == last.user_id
              d == last.data
          IN  (ValidRecipient(s, d) /\ ~IsRepeat(s, d) /\ ~TooSoon(s)) =>
                  /\ AtMinuteCap(s) => Answers("RATE_MINUTE", 429)
                  /\ ~AtMinuteCap(s) => last.outcome # "RATE_MINUTE"
                  /\ (/\ SentWithin(s, SECONDS_PER_MINUTE)
                             = MAX_MESSAGES_PER_MINUTE - 1
                      /\ ~AtHourCap(s)) => Answers("ADMITTED", 201)

\* a send was rejected as RATE_MINUTE with exactly the cap in the window, the
\* oldest of them created exactly 60 s before
C4_Witness ==
    /\ last.op = "create_message"
    /\ last.outcome = "RATE_MINUTE"
    /\ SentWithin(last.user_id, SECONDS_PER_MINUTE) = MAX_MESSAGES_PER_MINUTE
    /\ \E i \in SentBy(last.user_id) : Age(i) = SECONDS_PER_MINUTE

\* C5: past the duplicate, min-interval and per-minute checks a send is
\* rejected as RATE_HOUR (429) exactly when the sender has
\* MAX_MESSAGES_PER_HOUR or more messages in the last 3600 s; that many
\* messages inside the last hour and none inside the last minute give
\* RATE_HOUR, not RATE_MINUTE.
C5_HourCap ==
    Served =>
          LET s == last.user_id
              d == last.data
          IN  (ValidRecipient(s, d) /\ ~IsRepeat(s, d)) =>
                  /\ (~TooSoon(s) /\ ~AtMinuteCap(s)) =>
                        /\ AtHourCap(s) => Answers("RATE_HOUR", 429)
                        /\ ~AtHourCap(s) => last.outcome # "RATE_HOUR"
                  /\ (AtHourCap(s) /\ SentWithin(s, SECONDS_PER_MINUTE) = 0)
                        => Answers("RATE_HOUR", 429)

\* a send was rejected as RATE_HOUR while the sender had sent nothing in the
\* last minute
C5_Witness ==
    /\ last.op = "create_message"
    /\ last.outcome = "RATE_HOUR"
    /\ SentWithin(last.user_id, SECONDS_PER_MINUTE) = 0
    /\ SentWithin(last.user_id, SECONDS_PER_HOUR) = MAX_MESSAGES_PER_HOUR

\* C6: when several rate conditions hold at once the first in the order
\* duplicate, min-interval, per-minute, per-hour decides: DUPLICATE (400)
\* wins over MIN_INTERVAL, MIN_INTERVAL over RATE_MINUTE, RATE_MINUTE over
\* RATE_HOUR.
C6_FirstFailingCheckWins ==
    Served =>
          LET s == last.user_id
              d == last.data
          IN  ValidRecipient(s, d) =>
                  /\ (IsRepeat(s, d) /\ (TooSoon(s) \/ AtMinuteCap(s) \/ AtHourCap(s)))
                        => Answers("DUPLICATE", 400)
                  /\ (~IsRepeat(s, d) /\ TooSoon(s) /\ (AtMinuteCap(s) \/ AtHourCap(s)))
                        => Answers("MIN_INTERVAL", 429)
                  /\ (~IsRepeat(s, d) /\ ~TooSoon(s) /\ AtMinuteCap(s) /\ AtHourCap(s))
                        => Answers("RATE_MINUTE", 429)

\* an identical message sent again in the same second was rejected as
\* DUPLICATE although the min-interval and per-minute conditions held too
C6_Witness ==
    /\ last.op = "create_message"
    /\ last.outcome = "DUPLICATE"
    /\ TooSoon(last.user_id)
    /\ AtMinuteCap(last.user_id)

\* reachable: MIN_INTERVAL decided although the per-minute cap was reached
C6_WitnessMinOverMinute ==
    /\ last.op = "create_message"
    /\ last.outcome = "MIN_INTERVAL"
    /\ AtMinuteCap(last.user_id)

\* reachable: RATE_MINUTE decided although the per-hour cap was reached
C6_WitnessMinuteOverHour ==
    /\ last.op = "create_message"
    /\ last.outcome = "RATE_MINUTE"
    /\ AtHourCap(last.user_id)

\* C7 as stated: a send whose recipient is the sender is rejected as
\* SELF_SEND whatever the sender's history, existence and is_active flag.
C7_AsStated ==
    (last.op = "create_message" /\ last.data.recipient_id = last.user_id)
        => last.outcome = "SELF_SEND"

\* C7, amended: a send whose recipient is the sender is rejected as SELF_SEND
\* (400), whatever the sender's history and rate state, when the sender
\* exists and is active; it is NOT_FOUND (404) when the sender id is no user
\* and INACTIVE_RECIPIENT (400) when the sender is inactive.
C7_SelfSend ==
    (Served /\ last.data.recipient_id = last.user_id) =>
          LET s == last.user_id
          IN  /\ (s \in DOMAIN users /\ users[s].is_active)
                    => Answers("SELF_SEND", 400)
              /\ s \notin DOMAIN users => Answers("NOT_FOUND", 404)
              /\ (s \in DOMAIN users /\ ~users[s].is_active)
                    => Answers("INACTIVE_RECIPIENT", 400)

\* a self-send was rejected as SELF_SEND while the sender had just sent and
\* was at the per-minute cap
C7_Witness ==
    /\ last.op = "create_message"
    /\ last.outcome = "SELF_SEND"
    /\ last.data.recipient_id = last.user_id
    /\ TooSoon(last.user_id)
    /\ AtMinuteCap(last.user_id)

\* C8: the recipient is validated before any rate check: a send to an id
\* that is no user is NOT_FOUND (404) and a send to an inactive user is
\* INACTIVE_RECIPIENT (400), also when the sender is over a rate cap.
C8_RecipientFirst ==
    Served =>
          LET r == last.data.recipient_id
          IN  /\ r \notin DOMAIN users => Answers("NOT_FOUND", 404)
              /\ (r \in DOMAIN users /\ ~users[r].is_active)
                    => Answers("INACTIVE_RECIPIENT", 400)

\* a send to an id that is no user was answered NOT_FOUND while its sender,
\* another id, was inside the minimum interval and at the per-minute cap
C8_Witness ==
    /\ last.op = "create_message"
    /\ last.outcome = "NOT_FOUND"
    /\ last.data.recipient_id # last.user_id
    /\ TooSoon(last.user_id)
    /\ AtMinuteCap(last.user_id)

\* reachable: INACTIVE_RECIPIENT for a sender at the per-hour cap
C8_WitnessInactive ==
    /\ last.op = "create_message"
    /\ last.outcome = "INACTIVE_RECIPIENT"
    /\ last.data.recipient_id # last.user_id
    /\ AtHourCap(last.user_id)

\* C9: a rejected send, of any kind, leaves every message and attachment row
\* as it was; the rate checks read nothing but these rows, so a rejected
\* attempt counts in no later decision.
C9_RejectionChangesNothing ==
    (Served /\ last.outcome # "ADMITTED") =>
          /\ messages = before.messages
          /\ attachments = before.attachments

\* a send was rejected by a rate check with messages and attachments stored
C9_Witness ==
    /\ last.op = "create_message"
    /\ last.outcome \in {"DUPLICATE", "MIN_INTERVAL", "RATE_MINUTE", "RATE_HOUR"}
    /\ messages # << >>
    /\ attachments # << >>

\* C10: an admitted send adds exactly one message row: its id is used by no
\* other row, it carries the requested sender, recipient, subject and body,
\* is unread, undeleted, with read_at null; and it adds exactly the
\* attachments of the request, in request order, all owned by that message.
C10_AdmittedSendInserts ==
    (Served /\ last.outcome = "ADMITTED") =>
          LET d == last.data
              n == Len(messages)
              m == messages[n]
              new == AttachmentsOf(attachments, m.id)
          IN  /\ n = Len(before.messages) + 1
              /\ SubSeq(messages, 1, n - 1) = before.messages
              /\ \A i \in 1..(n - 1) : messages[i].id # m.id
              /\ m.sender_id = last.user_id
              /\ m.recipient_id = d.recipient_id
              /\ m.subject = d.subject
              /\ m.body = d.body
              /\ ~m.is_read
              /\ ~m.is_deleted_by_sender
              /\ ~m.is_deleted_by_recipient
              /\ m.read_at = NULL
              /\ Len(attachments) = Len(before.attachments) + Len(d.attachments)
              /\ SubSeq(attachments, 1, Len(before.attachments)) = before.attachments
              /\ Len(new) = Len(d.attachments)
              /\ \A k \in 1..Len(new) :
                    /\ new[k].attachment_type = d.attachments[k].attachment_type
                    /\ new[k].item_id = d.attachments[k].item_id
                    /\ new[k].item_name = d.attachments[k].item_name
                    /\ new[k].quantity = d.attachments[k].quantity
                    /\ new[k].attachment_data = d.attachments[k].attachment_data
              /\ \A j, k \in 1..Len(attachments) :
                    j # k => attachments[j].id # attachments[k].id

\* a message with two attachments was admitted into a store that already
\* held a message with an attachment
C10_Witness ==
    /\ last.op = "create_message"
    /\ last.outcome = "ADMITTED"
    /\ Len(last.data.attachments) = 2
    /\ Len(attachments) > 2
    /\ Len(messages) > 1

\* C19: duplicate suppression expires: a send identical to messages the
\* sender stored, all of them more than DUPLICATE_MESSAGE_WINDOW_SECONDS
\* ago, is admitted when the minimum interval and the two caps allow it.
C19_DuplicateExpires ==
    Served =>
          LET s == last.user_id
              d == last.data
          IN  (/\ ValidRecipient(s, d)
               /\ \E i \in SentBy(s) : Identical(i, s, d)
               /\ \A i \in SentBy(s) :
                     Identical(i, s, d) => Age(i) > DUPLICATE_MESSAGE_WINDOW_SECONDS
               /\ ~TooSoon(s)
               /\ ~AtMinuteCap(s)
               /\ ~AtHourCap(s)) => Answers("ADMITTED", 201)

\* a message was admitted again just after its duplicate window had passed,
\* while another message of the sender was still inside that window
C19_Witness ==
    /\ last.op = "create_message"
    /\ last.outcome = "ADMITTED"
    /\ \E i, j \in SentBy(last.user_id) :
          /\ Identical(i, last.user_id, last.data)
          /\ Age(i) > DUPLICATE_MESSAGE_WINDOW_SECONDS
          /\ Age(i) < DUPLICATE_MESSAGE_WINDOW_SECONDS + MIN_SECONDS_BETWEEN_MESSAGES + 1
          /\ Age(j) <= DUPLICATE_MESSAGE_WINDOW_SECONDS

\* the per-minute window of sender s has slid: as many messages as the cap
\* lay within one minute of each other, so that a send was refused while
\* all of them were a minute old or less, and the oldest of them is now
\* more than a minute old, which leaves fewer than the cap in the window
Slid(s) ==
    /\ ~AtMinuteCap(s)
    /\ \E W \in SUBSET SentBy(s) :
          /\ Cardinality(W) = MAX_MESSAGES_PER_MINUTE
          /\ \A i, j \in W :
                before.messages[j].created_at - before.messages[i].created_at
                    <= SECONDS_PER_MINUTE
          /\ \E i \in W : Age(i) > SECONDS_PER_MINUTE

\* C20: the per-minute cap slides with time: once the oldest of the messages
\* that filled the cap is more than 60 s old, so that fewer than
\* MAX_MESSAGES_PER_MINUTE lie in the last 60 s, a send that passes the
\* duplicate, min-interval and per-hour checks is admitted.
C20_MinuteCapSlides ==
    Served =>
          LET s == last.user_id
              d == last.data
          IN  (/\ ValidRecipient(s, d)
               /\ ~IsRepeat(s, d)
               /\ ~TooSoon(s)
               /\ ~AtHourCap(s)
               /\ Slid(s)) => Answers("ADMITTED", 201)

\* a send was admitted with one message less than the cap in the window, the
\* oldest of the messages that had filled the cap being 61 s old
C20_Witness ==
    /\ last.op = "create_message"
    /\ last.outcome = "ADMITTED"
    /\ Slid(last.user_id)
    /\ SentWithin(last.user_id, SECONDS_PER_MINUTE) = MAX_MESSAGES_PER_MINUTE - 1
    /\ \E i \in SentBy(last.user_id) : Age(i) = SECONDS_PER_MINUTE + 1

\* the sender's most recent message among those the send found stored
LastSentAt(s) ==
    CHOOSE t \in {before.messages[i].created_at : i \in SentBy(s)} :
        \A i \in SentBy(s) : before.messages[i].created_at <= t

\* C21 as stated: a MIN_INTERVAL rejection reports the seconds remaining until
\* the sender may send again, MIN_SECONDS_BETWEEN_MESSAGES minus the time
\* elapsed since the sender's most recent message.
C21_AsStated ==
    (Served /\ last.outcome = "MIN_INTERVAL") =>
        \E k \in DOMAIN last.detail.values :
            /\ k > 1
            /\ last.detail.values[k]
                  = MIN_SECONDS_BETWEEN_MESSAGES - (clock - LastSentAt(last.user_id))

\* C21, amended: a MIN_INTERVAL rejection (429) reports two numbers, the
\* configured MIN_SECONDS_BETWEEN_MESSAGES and the whole seconds elapsed
\* since the sender's most recent message, which lie in [0, the interval);
\* the seconds remaining are their difference and are not reported.
C21_ReportsElapsed ==
    (Served /\ last.outcome = "MIN_INTERVAL") =>
        LET elapsed == clock - LastSentAt(last.user_id)
        IN  /\ last.status = 429
            /\ last.detail.values = <<MIN_SECONDS_BETWEEN_MESSAGES, elapsed>>
            /\ Len(last.detail.text) = 3
            /\ elapsed >= 0
            /\ elapsed < MIN_SECONDS_BETWEEN_MESSAGES

\* a send was rejected as MIN_INTERVAL one second after the sender's last
\* message: 1 second ago is reported, 2 seconds remain
C21_Witness ==
    /\ last.op = "create_message"
    /\ last.outcome = "MIN_INTERVAL"
    /\ clock - LastSentAt(last.user_id) = 1
    /\ last.detail.values[2] = 1

\* sender s has a stored message created later than the request's now
AheadOfNow(s) == \E i \in SentBy(s) : Age(i) < 0

\* C22: a stored message of the sender with created_at later than now (a
\* negative elapsed time) never causes a MIN_INTERVAL rejection: whenever a
\* send is rejected as MIN_INTERVAL the sender's most recent message is not
\* later than now and less than MIN_SECONDS_BETWEEN_MESSAGES old, and the
\* elapsed time reported is not negative.
C22_SkewNeverRejects ==
    (Served /\ last.outcome = "MIN_INTERVAL") =>
        /\ ~AheadOfNow(last.user_id)
        /\ TooSoon(last.user_id)
        /\ clock - LastSentAt(last.user_id) >= 0
        /\ \A k \in DOMAIN last.detail.values : last.detail.values[k] >= 0

\* a send passed the min-interval check and was admitted while the only
\* message of its sender inside the minimum interval was later than now
C22_Witness ==
    /\ last.op = "create_message"
    /\ last.outcome = "ADMITTED"
    /\ AheadOfNow(last.user_id)
    /\ \E i \in SentBy(last.user_id) :
          Age(i) < 0 /\ Age(i) >= 0 - MIN_SECONDS_BETWEEN_MESSAGES

C33_LatestRecentRejects ==
    Served =>
          LET s == last.user_id
              d == last.data
          IN  (/\ ValidRecipient(s, d)
               /\ ~IsRepeat(s, d)
               /\ TooSoon(s)
               /\ ~AheadOfNow(s)) => Answers("MIN_INTERVAL", 429)

\* reachable: a send was not rejected as MIN_INTERVAL although a message of
\* its sender was less than the interval old, a later one being ahead of now
C33_Witness ==
    /\ Served
    /\ last.outcome \in {"ADMITTED", "RATE_MINUTE"}
    /\ TooSoon(last.user_id)
    /\ AheadOfNow(last.user_id)

\* what the rows msgs hold of the messages sent by s: these rows only, in
\* their order, each with its recipient, subject, body and created_at, and
\* none of its id, read state and deletion flags
OwnHistory(msgs, s) ==
    LET own == SelectSeq(msgs, LAMBDA m : m.sender_id = s)
    IN  [k \in DOMAIN own |->
            [sender_id |-> own[k].sender_id, recipient_id |-> own[k].recipient_id,
             subject |-> own[k].subject, body |-> own[k].body,
             created_at |-> own[k].created_at]]

\* C24: the admission decision for a send of S is a function of the request,
\* now, the recipient's existence and is_active flag, and the stored messages
\* with sender_id = S: the outcome is the one the checks give on the sender's
\* own rows alone, stripped of read and deletion flags, so two stores that
\* agree on these rows give the same outcome, whatever other users sent,
\* whatever S received and whatever was read or soft-deleted.
C24_AdmissionReadsOwnHistory ==
    /\ Served =>
          last.outcome = CreateMessageCheck(users,
                             OwnHistory(before.messages, last.user_id),
                             last.user_id, last.data, clock)
    /\ \A req \in StoreRequests :
          CreateMessageCheck(users, messages, req.sender_id, req.data, clock)
              = CreateMessageCheck(users, OwnHistory(messages, req.sender_id),
                                   req.sender_id, req.data, clock)

\* a send of a user who had sent nothing was admitted into a store holding
\* a message of another sender, created in the same second, which that user
\* had received and soft-deleted
C24_Witness ==
    /\ last.op = "create_message"
    /\ last.outcome = "ADMITTED"
    /\ OwnHistory(before.messages, last.user_id) = << >>
    /\ \E i \in DOMAIN before.messages :
          /\ before.messages[i].recipient_id = last.user_id
          /\ before.messages[i].is_deleted_by_recipient
          /\ Age(i) = 0

\* reachable: a send was rejected as DUPLICATE although its sender had
\* soft-deleted the message it repeats and the recipient had read it
C24_WitnessFlags ==
    /\ last.op = "create_message"
    /\ last.outcome = "DUPLICATE"
    /\ \A i \in SentBy(last.user_id) :
          /\ before.messages[i].is_deleted_by_sender
          /\ before.messages[i].is_read

----------------------------------------------------------------------------
(* Vocabulary of the store properties.  A per-message operation is judged  *)
(* from the rows it found (before), the rows it left (messages) and the    *)
(* response it gave (last).                                                *)

\* the message id the last operation asked for is stored
Stored == \E i \in DOMAIN before.messages : before.messages[i].id = last.message_id

\* the row asked for as the operation found it, and as it left it
Found == before.messages[RowOf(before.messages, last.message_id)]

Left == messages[RowOf(messages, last.message_id)]

\* user v is the sender or the recipient of message m
Party(m, v) == v = m.sender_id \/ v = m.recipient_id

\* user v has soft-deleted message m
DeletedBy(m, v) ==
    \/ v = m.sender_id /\ m.is_deleted_by_sender
    \/ v = m.recipient_id /\ m.is_deleted_by_recipient

\* C11: get_message_by_id returns the message if and only if it exists, the
\* viewer is its sender or recipient and the viewer's own deletion flag is
\* false; otherwise it is NOT_FOUND (404) when the id is not stored or the
\* viewer is a party that soft-deleted it, and FORBIDDEN (403) when the
\* message exists and the viewer is no party, also when both parties have
\* soft-deleted it.
C11_GetById ==
    last.op = "get_message_by_id" =>
        LET v == last.user_id
        IN  /\ last.outcome = "OK"
                  <=> (Stored /\ Party(Found, v) /\ ~DeletedBy(Found, v))
            /\ last.outcome = "OK"
                  => (last.status = 200 /\ last.message = <<Found>>)
            /\ (~Stored \/ (Party(Found, v) /\ DeletedBy(Found, v)))
                  => (Answers("NOT_FOUND", 404) /\ last.message = NULL)
            /\ (Stored /\ ~Party(Found, v))
                  => (Answers("FORBIDDEN", 403) /\ last.message = NULL)

\* a user who is no party asked for a message both parties had soft-deleted
\* and was answered FORBIDDEN
C11_Witness ==
    /\ last.op = "get_message_by_id"
    /\ last.outcome = "FORBIDDEN"
    /\ Stored
    /\ Found.is_deleted_by_sender
    /\ Found.is_deleted_by_recipient

\* reachable: the recipient asked for a message it had soft-deleted, which
\* the sender had not, and was answered NOT_FOUND
C11_WitnessOwnDeletion ==
    /\ last.op = "get_message_by_id"
    /\ last.outcome = "NOT_FOUND"
    /\ Stored
    /\ last.user_id = Found.recipient_id
    /\ ~Found.is_deleted_by_sender

\* C12: mark_as_read is idempotent for sequential calls: the recipient's
\* first successful call sets is_read and stamps read_at with the time of
\* that call; every later call by the recipient, however much later, leaves
\* the row as it found it, is_read true and read_at the first call's time.
C12_MarkReadIdempotent ==
    (last.op = "mark_as_read" /\ Stored /\ last.user_id = Found.recipient_id) =>
        /\ (last.outcome = "OK" /\ ~Found.is_read) =>
              /\ Left.is_read
              /\ Left.read_at = <<clock>>
        /\ Found.is_read =>
              /\ Left.is_read
              /\ Left.read_at = Found.read_at
              /\ Left.read_at # NULL
        /\ last.outcome = "OK" => last.message = <<Left>>
        /\ messages = [before.messages EXCEPT ![RowOf(messages, last.message_id)] = Left]

\* the recipient marked a message again at a later time than the first call
\* and was answered with the first call's read_at
C12_Witness ==
    /\ last.op = "mark_as_read"
    /\ last.outcome = "OK"
    /\ Stored
    /\ Found.is_read
    /\ Found.read_at # <<clock>>
    /\ last.message[1].read_at = Found.read_at

\* C13: under any interleaving of concurrent mark_as_read calls on a message
\* read_at is written once: a call that takes effect on a message already
\* marked read leaves is_read true and read_at as the first call set it.
C13_ReadAtWrittenOnce ==
    (last.op = "mark_as_read" /\ last.outcome = "OK" /\ Stored /\ Found.is_read) =>
        /\ Left.is_read
        /\ Left.read_at = Found.read_at

\* C23: in every reachable state each message has is_read true if and only
\* if read_at is non-null; read_at is null from the insert until the first
\* successful mark_as_read and, once set, never changes again; is_read never
\* goes back from true to false.
C23_ReadAtSetOnce ==
    /\ \A i \in DOMAIN messages :
          messages[i].is_read <=> messages[i].read_at # NULL
    /\ \A i \in DOMAIN messages :
          IF i \in DOMAIN before.messages
          THEN /\ before.messages[i].is_read => messages[i].is_read
               /\ before.messages[i].read_at # NULL
                     => messages[i].read_at = before.messages[i].read_at
               /\ messages[i].read_at # before.messages[i].read_at =>
                     /\ last.op = "mark_as_read"
                     /\ last.outcome = "OK"
                     /\ last.message_id = messages[i].id
          ELSE messages[i].read_at = NULL

\* C14 as stated: for every stored message and every viewer who is not its
\* recipient, its sender included whatever the sender's deletion flag,
\* mark_as_read fails with FORBIDDEN and leaves the message unchanged.
C14_AsStated ==
    (last.op = "mark_as_read" /\ Stored /\ last.user_id # Found.recipient_id) =>
        /\ last.outcome = "FORBIDDEN"
        /\ Left = Found

\* C14, amended: for every stored message and every viewer who is not its
\* recipient, mark_as_read fails and leaves is_read and read_at (and the
\* whole table) unchanged; it fails with FORBIDDEN (403) for a viewer who is
\* no party and for the sender who has not soft-deleted the message, and
\* with NOT_FOUND (404) for the sender who has soft-deleted it.
C14_OnlyRecipientMarks ==
    (last.op = "mark_as_read" /\ Stored /\ last.user_id # Found.recipient_id) =>
        /\ messages = before.messages
        /\ Left.is_read = Found.is_read
        /\ Left.read_at = Found.read_at
        /\ last.message = NULL
        /\ DeletedBy(Found, last.user_id) => Answers("NOT_FOUND", 404)
        /\ ~DeletedBy(Found, last.user_id) => Answers("FORBIDDEN", 403)

\* the sender, who had not soft-deleted the message, tried to mark it read
\* while the recipient had soft-deleted it, and was answered FORBIDDEN
C14_Witness ==
    /\ last.op = "mark_as_read"
    /\ last.outcome = "FORBIDDEN"
    /\ Stored
    /\ last.user_id = Found.sender_id
    /\ Found.is_deleted_by_recipient
    /\ ~Found.is_read

\* C25: each rejection kind surfaces with its fixed status class, whichever
\* handler raises it: NOT_FOUND as 404, FORBIDDEN as 403, SELF_SEND,
\* INACTIVE_RECIPIENT and DUPLICATE as 400, MIN_INTERVAL, RATE_MINUTE and
\* RATE_HOUR as 429; a 4xx status is given to these kinds only.
C25_StatusClasses ==
    last.op # "none" =>
        /\ last.outcome = "NOT_FOUND" => last.status = 404
        /\ last.outcome = "FORBIDDEN" => last.status = 403
        /\ last.outcome \in {"SELF_SEND", "INACTIVE_RECIPIENT", "DUPLICATE"}
              => last.status = 400
        /\ last.outcome \in {"MIN_INTERVAL", "RATE_MINUTE", "RATE_HOUR"}
              => last.status = 429
        /\ last.outcome \in {"OK", "ADMITTED", "NO_CONTENT"}
              <=> last.status \in {200, 201, 204}
        /\ last.op = "create_message" =>
              /\ last.data.recipient_id \notin DOMAIN users => last.status = 404
              /\ last.status = 403 => FALSE
        /\ last.op \in {"get_message_by_id", "mark_as_read", "delete_message"} =>
              /\ last.status \in {200, 204, 403, 404}
              /\ ~Stored => last.status = 404
              /\ (Stored /\ ~Party(Found, last.user_id)) => last.status = 403

\* a send was answered 429 for the per-hour cap after the per-message
\* operations had answered on the same store
C25_Witness ==
    /\ last.op = "create_message"
    /\ last.outcome = "RATE_HOUR"
    /\ last.status = 429
    /\ \E i \in DOMAIN messages :
          messages[i].is_read /\ messages[i].is_deleted_by_sender

\* reachable: every other rejection kind, each from one of its handlers
C25_WitnessSendNotFound ==
    last.op = "create_message" /\ last.outcome = "NOT_FOUND" /\ last.status = 404

C25_WitnessInactive ==
    last.op = "create_message" /\ last.outcome = "INACTIVE_RECIPIENT" /\ last.status = 400

C25_WitnessSelfSend ==
    last.op = "create_message" /\ last.outcome = "SELF_SEND" /\ last.status = 400

C25_WitnessDuplicate ==
    last.op = "create_message" /\ last.outcome = "DUPLICATE" /\ last.status = 400

C25_WitnessMinInterval ==
    last.op = "create_message" /\ last.outcome = "MIN_INTERVAL" /\ last.status = 429

C25_WitnessRateMinute ==
    last.op = "create_message" /\ last.outcome = "RATE_MINUTE" /\ last.status = 429

C25_WitnessGetForbidden ==
    last.op = "get_message_by_id" /\ last.outcome = "FORBIDDEN" /\ last.status = 403

C25_WitnessMarkForbidden ==
    /\ last.op = "mark_as_read" /\ last.outcome = "FORBIDDEN" /\ last.status = 403
    /\ Stored
    /\ last.user_id = Found.sender_id

C25_WitnessDeleteNotFound ==
    /\ last.op = "delete_message" /\ last.outcome = "NOT_FOUND" /\ last.status = 404
    /\ Stored

\* the ids of the messages of a listing
Ids(result) == {result[k].id : k \in DOMAIN result}

\* the listings of user v, with the default page, over the rows msgs
InboxOf(msgs, v) == GetInboxMessages(msgs, v, 0, 50, FALSE)

SentOf(msgs, v) == GetSentMessages(msgs, v, 0, 50)

\* C15: a soft delete by the sender sets only is_deleted_by_sender: after it
\* the message is in no listing of the sender's sent messages and the
\* sender's get_message_by_id is NOT_FOUND, while the recipient's
\* get_message_by_id and inbox give what they gave before (the message, unless
\* the recipient itself deleted it); and the same with the roles exchanged
\* for a soft delete by the recipient.
C15_SoftDeleteHidesForCallerOnly ==
    (last.op = "delete_message" /\ last.outcome = "NO_CONTENT") =>
        LET v == last.user_id
            id == last.message_id
            s == Found.sender_id
            r == Found.recipient_id
        IN  /\ messages = [before.messages EXCEPT ![RowOf(messages, id)] = Left]
            /\ attachments = before.attachments
            /\ GetMessageById(messages, id, v).outcome = "NOT_FOUND"
            /\ v = s =>
                  /\ Left = [Found EXCEPT !.is_deleted_by_sender = TRUE]
                  /\ \A result \in SentOf(messages, s) : id \notin Ids(result)
                  /\ GetMessageById(messages, id, r).outcome
                        = GetMessageById(before.messages, id, r).outcome
                  /\ {Ids(l) : l \in InboxOf(messages, r)}
                        = {Ids(l) : l \in InboxOf(before.messages, r)}
                  /\ ~Found.is_deleted_by_recipient =>
                        /\ GetMessageById(messages, id, r).message = <<Left>>
                        /\ \A result \in InboxOf(messages, r) : id \in Ids(result)
            /\ v = r =>
                  /\ Left = [Found EXCEPT !.is_deleted_by_recipient = TRUE]
                  /\ \A result \in InboxOf(messages, r) : id \notin Ids(result)
                  /\ GetMessageById(messages, id, s).outcome
                        = GetMessageById(before.messages, id, s).outcome
                  /\ {Ids(l) : l \in SentOf(messages, s)}
                        = {Ids(l) : l \in SentOf(before.messages, s)}
                  /\ ~Found.is_deleted_by_sender =>
                        /\ GetMessageById(messages, id, s).message = <<Left>>
                        /\ \A result \in SentOf(messages, s) : id \in Ids(result)

\* the sender soft-deleted a message the recipient still sees
C15_Witness ==
    /\ last.op = "delete_message"
    /\ last.outcome = "NO_CONTENT"
    /\ last.user_id = Found.sender_id
    /\ ~Left.is_deleted_by_recipient
    /\ \E result \in InboxOf(messages, Found.recipient_id) :
          last.message_id \in Ids(result)

\* reachable: the recipient soft-deleted a message the sender still sees
C15_WitnessRecipient ==
    /\ last.op = "delete_message"
    /\ last.outcome = "NO_CONTENT"
    /\ last.user_id = Found.recipient_id
    /\ ~Left.is_deleted_by_sender
    /\ \E result \in SentOf(messages, Found.sender_id) :
          last.message_id \in Ids(result)

\* reachable: after the sender's soft delete the recipient listed its inbox
\* and the message was in it, with the sender's flag set
C15_WitnessListed ==
    /\ last.op = "get_inbox_messages"
    /\ \E k \in DOMAIN last.result : last.result[k].is_deleted_by_sender

\* the rows msgs had the message id never been sent
Without(msgs, id) == SelectSeq(msgs, LAMBDA m : m.id # id)

\* what the caller is told by response r, the id it asked for left out
Seen(r) ==
    [outcome |-> r.outcome, status |-> r.status, detail |-> r.detail,
     message |-> r.message, attachments |-> r.attachments]

\* the response of operation op of user v for the id msgs never assigned
NeverSent(op, v, msgs, atts, now) ==
    LET id == Len(msgs) + 1
    IN  HandlerResponse(op, v, id,
            CASE op = "get_message_by_id" -> GetMessageById(msgs, id, v)
              [] op = "mark_as_read" -> MarkAsRead(msgs, id, v, now)
              [] op = "delete_message" -> DeleteMessage(msgs, id, v),
            atts)

\* C26: a viewer who is a party to a message and has soft-deleted it cannot
\* tell it from a message that never existed: get_message_by_id, mark_as_read
\* and delete_message by that viewer for its id give the NOT_FOUND (404)
\* response, detail included, that they give for an id never assigned, and
\* change no row; the viewer's inbox and sent listings are what they would
\* be had the message never been sent.
C26_DeletedLooksMissing ==
    /\ (/\ last.op \in {"get_message_by_id", "mark_as_read", "delete_message"}
        /\ Stored
        /\ Party(Found, last.user_id)
        /\ DeletedBy(Found, last.user_id)) =>
            /\ Answers("NOT_FOUND", 404)
            /\ Seen(last) = Seen(NeverSent(last.op, last.user_id, before.messages,
                                           before.attachments, clock))
            /\ messages = before.messages
    /\ last.op = "get_inbox_messages" =>
          \A i \in DOMAIN before.messages :
              LET m == before.messages[i]
              IN  (Party(m, last.user_id) /\ DeletedBy(m, last.user_id)) =>
                      /\ m.id \notin Ids(last.result)
                      /\ last.result \in GetInboxMessages(Without(before.messages, m.id),
                                             last.user_id, last.skip, last.limit,
                                             last.unread_only)
                      /\ GetInboxMessages(before.messages, last.user_id, last.skip,
                                          last.limit, last.unread_only)
                            = GetInboxMessages(Without(before.messages, m.id),
                                  last.user_id, last.skip, last.limit, last.unread_only)
    /\ last.op = "get_sent_messages" =>
          \A i \in DOMAIN before.messages :
              LET m == before.messages[i]
              IN  (Party(m, last.user_id) /\ DeletedBy(m, last.user_id)) =>
                      /\ m.id \notin Ids(last.result)
                      /\ last.result \in GetSentMessages(Without(before.messages, m.id),
                                             last.user_id, last.skip, last.limit)
                      /\ GetSentMessages(before.messages, last.user_id, last.skip,
                                         last.limit)
                            = GetSentMessages(Without(before.messages, m.id),
                                  last.user_id, last.skip, last.limit)

\* the recipient tried to mark read an unread message it had soft-deleted,
\* which its sender still sees, and was answered as for a missing message
C26_Witness ==
    /\ last.op = "mark_as_read"
    /\ last.outcome = "NOT_FOUND"
    /\ Stored
    /\ last.user_id = Found.recipient_id
    /\ Found.is_deleted_by_recipient
    /\ ~Found.is_deleted_by_sender
    /\ ~Found.is_read

\* reachable: the sender soft-deleted again a message it had soft-deleted
C26_WitnessDeleteAgain ==
    /\ last.op = "delete_message"
    /\ last.outcome = "NOT_FOUND"
    /\ Stored
    /\ last.user_id = Found.sender_id

\* reachable: the sender listed its sent messages after soft-deleting one
\* the recipient had not deleted
C26_WitnessListed ==
    /\ last.op = "get_sent_messages"
    /\ \E i \in DOMAIN messages :
          /\ messages[i].sender_id = last.user_id
          /\ messages[i].is_deleted_by_sender
          /\ ~messages[i].is_deleted_by_recipient

\* the attachments sent with stored message m: those of its request
SentWith(m) ==
    (CHOOSE req \in StoreRequests \cup TxnRequests :
        /\ req.sender_id = m.sender_id
        /\ req.data.recipient_id = m.recipient_id
        /\ req.data.subject = m.subject
        /\ req.data.body = m.body).data.attachments

\* C16: no operation removes a message row or an attachment: whatever ran
\* last (send, get, listing, mark-read or soft delete), every message id and
\* every attachment row stored before it is stored after it, and a message
\* soft-deleted by both parties is present with all the attachments it was
\* sent with.
C16_NoRowRemoved ==
    /\ {before.messages[i].id : i \in DOMAIN before.messages}
            \subseteq {messages[i].id : i \in DOMAIN messages}
    /\ Len(messages) >= Len(before.messages)
    /\ Len(attachments) >= Len(before.attachments)
    /\ \A k \in DOMAIN before.attachments : attachments[k] = before.attachments[k]
    /\ \A i \in DOMAIN messages :
          (messages[i].is_deleted_by_sender /\ messages[i].is_deleted_by_recipient) =>
              LET kept == AttachmentsOf(attachments, messages[i].id)
                  sent == SentWith(messages[i])
              IN  /\ Len(kept) = Len(sent)
                  /\ \A k \in DOMAIN sent :
                        /\ kept[k].attachment_type = sent[k].attachment_type
                        /\ kept[k].quantity = sent[k].quantity

\* the second party soft-deleted a message sent with two attachments: the
\* row, with both flags set, and its attachments are stored
C16_Witness ==
    /\ last.op = "delete_message"
    /\ last.outcome = "NO_CONTENT"
    /\ Left.is_deleted_by_sender
    /\ Left.is_deleted_by_recipient
    /\ Len(AttachmentsOf(attachments, Left.id)) = 2

\* the smaller of two numbers
Min(a, b) == IF a < b THEN a ELSE b

\* result is the page [skip, skip + limit) of the rows wanted, newest first:
\* it holds wanted rows only, each once, newest first, as many as the page
\* has room for, and the wanted rows left out split into skip rows that are
\* not older than any row of the page and a rest that is not newer
IsPageOf(result, wanted, skip, limit) ==
    LET n == Cardinality(wanted)
        got == {i \in wanted : \E k \in DOMAIN result : result[k] = before.messages[i]}
    IN  /\ \A k \in DOMAIN result : \E i \in wanted : result[k] = before.messages[i]
        /\ \A j, k \in DOMAIN result : j # k => result[j].id # result[k].id
        /\ \A j, k \in DOMAIN result :
              j < k => result[j].created_at >= result[k].created_at
        /\ Len(result) = (IF n > skip THEN Min(limit, n - skip) ELSE 0)
        /\ \E head \in SUBSET (wanted \ got) :
              /\ Cardinality(head) = Min(skip, n)
              /\ \A i \in head : \A k \in DOMAIN result :
                    before.messages[i].created_at >= result[k].created_at
              /\ \A i \in (wanted \ got) \ head : \A k \in DOMAIN result :
                    before.messages[i].created_at <= result[k].created_at

\* C17: get_inbox_messages(user, skip, limit, unread_only) returns exactly the
\* page [skip, skip + limit) of the messages with recipient_id = user and
\* is_deleted_by_recipient false (and is_read false when unread_only), newest
\* first; get_sent_messages the same for sender_id = user and
\* is_deleted_by_sender false; and get_message_by_id by that user succeeds
\* for every message either one returns.
C17_Listings ==
    /\ last.op = "get_inbox_messages" =>
          /\ IsPageOf(last.result,
                 {i \in DOMAIN before.messages :
                     /\ before.messages[i].recipient_id = last.user_id
                     /\ ~before.messages[i].is_deleted_by_recipient
                     /\ last.unread_only => ~before.messages[i].is_read},
                 last.skip, last.limit)
          /\ \A k \in DOMAIN last.result :
                GetMessageById(messages, last.result[k].id, last.user_id).outcome = "OK"
    /\ last.op = "get_sent_messages" =>
          /\ IsPageOf(last.result,
                 {i \in DOMAIN before.messages :
                     /\ before.messages[i].sender_id = last.user_id
                     /\ ~before.messages[i].is_deleted_by_sender},
                 last.skip, last.limit)
          /\ \A k \in DOMAIN last.result :
                GetMessageById(messages, last.result[k].id, last.user_id).outcome = "OK"

\* the second page of one row of an inbox was listed: the row returned is
\* older than the row skipped, and the sender of one of them has deleted it
C17_Witness ==
    /\ last.op = "get_inbox_messages"
    /\ last.skip = 1
    /\ last.limit = 1
    /\ Len(last.result) = 1
    /\ \E i \in DOMAIN messages :
          /\ messages[i].recipient_id = last.user_id
          /\ messages[i].created_at > last.result[1].created_at
          /\ messages[i].is_deleted_by_sender

\* reachable: an unread-only listing left out a message the recipient has read
C17_WitnessUnreadOnly ==
    /\ last.op = "get_inbox_messages"
    /\ last.unread_only
    /\ Len(last.result) = 1
    /\ \E i \in DOMAIN messages :
          /\ messages[i].recipient_id = last.user_id
          /\ ~messages[i].is_deleted_by_recipient
          /\ messages[i].is_read

\* reachable: a sent listing left out a message its sender has soft-deleted
C17_WitnessSent ==
    /\ last.op = "get_sent_messages"
    /\ Len(last.result) = 1
    /\ \E i \in DOMAIN messages :
          /\ messages[i].sender_id = last.user_id
          /\ messages[i].is_deleted_by_sender

\* the attachment rows kept are exactly the attachments sent, in their order
Complete(kept, sent) ==
    /\ Len(kept) = Len(sent)
    /\ \A k \in DOMAIN sent :
          /\ kept[k].attachment_type = sent[k].attachment_type
          /\ kept[k].item_id = sent[k].item_id
          /\ kept[k].item_name = sent[k].item_name
          /\ kept[k].quantity = sent[k].quantity
          /\ kept[k].attachment_data = sent[k].attachment_data

\* C18: the insert is atomic for concurrent readers and under failure: every
\* message a get_message_by_id, an inbox or a sent listing returns, and every
\* message readable at all, has all the attachments of its send request;
\* and a send that fails after the flush of its message row and before the
\* commit leaves both tables as they were, so neither its message nor any of
\* its attachments is stored or read by a later rate check.
C18_InsertAtomic ==
    /\ \A i \in DOMAIN messages :
          Complete(AttachmentsOf(attachments, messages[i].id), SentWith(messages[i]))
    /\ \A k \in DOMAIN attachments :
          \E i \in DOMAIN messages : messages[i].id = attachments[k].message_id
    /\ (last.op = "get_message_by_id" /\ last.outcome = "OK") =>
          Complete(last.attachments, SentWith(last.message[1]))
    /\ last.op \in {"get_inbox_messages", "get_sent_messages"} =>
          \A k \in DOMAIN last.result :
              Complete(last.attachments[k], SentWith(last.result[k]))
    /\ (last.op = "create_message" /\ last.outcome = "INTERNAL") =>
          /\ messages = before.messages
          /\ attachments = before.attachments
          /\ \A i \in DOMAIN messages : messages[i].id # last.message_id
          /\ \A k \in DOMAIN attachments :
                attachments[k].message_id # last.message_id

\* a reader asked for the id of a message whose send had flushed the row and
\* written one of its two attachments, and was answered NOT_FOUND, while a
\* committed message was stored
C18_Witness ==
    /\ last.op = "get_message_by_id"
    /\ last.outcome = "NOT_FOUND"
    /\ messages # << >>
    /\ \E p \in Procs :
          /\ inflight[p].pc = "flushed"
          /\ inflight[p].message.id = last.message_id
          /\ Len(inflight[p].written) = 1
          /\ Len(inflight[p].data.attachments) = 2

\* reachable: a send failed with one of its attachments written while a
\* committed message with an attachment was stored
C18_WitnessRollback ==
    /\ last.op = "create_message"
    /\ last.outcome = "INTERNAL"
    /\ attachments # << >>

\* reachable: an inbox listing returned a message with its two attachments
\* while another send was under way
C18_WitnessListed ==
    /\ last.op = "get_inbox_messages"
    /\ \E k \in DOMAIN last.result : Len(last.attachments[k]) = 2
    /\ \E p \in Procs : inflight[p].pc = "flushed"

\* C30: duplicate detection matches on the exact tuple (sender_id,
\* recipient_id, subject, body): a send that differs from every message its
\* sender stored in the duplicate window in the recipient, the subject or the
\* body is never rejected as DUPLICATE, and a send rejected as DUPLICATE
\* repeats a message of its own sender, so the identical message of another
\* sender to the same recipient never makes it one.
C30_DuplicateExactTuple ==
    Served =>
          LET s == last.user_id
              d == last.data
          IN  /\ (\A i \in SentBy(s) :
                      Age(i) <= DUPLICATE_MESSAGE_WINDOW_SECONDS =>
                          \/ before.messages[i].recipient_id # d.recipient_id
                          \/ before.messages[i].subject # d.subject
                          \/ before.messages[i].body # d.body)
                    => last.outcome # "DUPLICATE"
              /\ last.outcome = "DUPLICATE" =>
                    \E i \in DOMAIN before.messages :
                        /\ before.messages[i].sender_id = s
                        /\ before.messages[i].recipient_id = d.recipient_id
                        /\ before.messages[i].subject = d.subject
                        /\ before.messages[i].body = d.body

\* message i, found inside the duplicate window, agrees with the send in all
\* of the tuple but the field named
Differs(i, field) ==
    LET m == before.messages[i]
        d == last.data
    IN  /\ Age(i) <= DUPLICATE_MESSAGE_WINDOW_SECONDS
        /\ (m.sender_id = last.user_id) <=> (field # "sender_id")
        /\ (m.recipient_id = d.recipient_id) <=> (field # "recipient_id")
        /\ (m.subject = d.subject) <=> (field # "subject")
        /\ (m.body = d.body) <=> (field # "body")

\* a send was admitted while the identical message of another sender to the
\* same recipient was stored inside the duplicate window
C30_Witness ==
    /\ Served
    /\ last.outcome = "ADMITTED"
    /\ \E i \in DOMAIN before.messages : Differs(i, "sender_id")

\* reachable: a send was admitted that differs from a message of its sender
\* inside the window in the body alone, in the subject alone, and in the
\* recipient alone
C30_WitnessBody ==
    /\ Served
    /\ last.outcome = "ADMITTED"
    /\ \E i \in DOMAIN before.messages : Differs(i, "body")

C30_WitnessSubject ==
    /\ Served
    /\ last.outcome = "ADMITTED"
    /\ \E i \in DOMAIN before.messages : Differs(i, "subject")

C30_WitnessRecipient ==
    /\ Served
    /\ last.outcome = "ADMITTED"
    /\ \E i \in DOMAIN before.messages : Differs(i, "recipient_id")

\* C31: every message stored through a send has a recipient other than
\* its sender, and its recipient is a user and is active (no operation
\* changes is_active, so it was at the admission); in every reachable state,
\* also of sends served concurrently.
C31_StoredRecipientsValid ==
    \A i \in DOMAIN messages :
        /\ messages[i].sender_id # messages[i].recipient_id
        /\ messages[i].recipient_id \in DOMAIN users
        /\ users[messages[i].recipient_id].is_active

\* a send to its own sender was refused while another send had passed its
\* checks and was not committed, with messages of two senders stored
C31_Witness ==
    /\ Served
    /\ last.outcome = "SELF_SEND"
    /\ Pending # {}
    /\ \E i, j \in DOMAIN messages :
          messages[i].sender_id # messages[j].sender_id

\* reachable: the same for a send to an inactive user
C31_WitnessInactive ==
    /\ Served
    /\ last.outcome = "INACTIVE_RECIPIENT"
    /\ Pending # {}
    /\ messages # << >>

\* message n has the inserted fields of message m
SameInserted(m, n) ==
    /\ n.id = m.id
    /\ n.sender_id = m.sender_id
    /\ n.recipient_id = m.recipient_id
    /\ n.subject = m.subject
    /\ n.body = m.body
    /\ n.created_at = m.created_at

\* row i is the row the last per-message operation was asked for
IsTarget(i) == before.messages[i].id = last.message_id

\* C32: after a message is inserted its id, sender_id, recipient_id, subject,
\* body, created_at and attachments never change; a mark_as_read changes
\* only is_read and read_at of its target, a delete_message changes only the
\* caller's deletion flag of its target, and neither changes another message.
C32_InsertedFieldsFrozen ==
    /\ Len(messages) = Len(FrameStore(users).messages)
    /\ \A i \in DOMAIN messages :
          SameInserted(FrameStore(users).messages[i], messages[i])
    /\ attachments = FrameStore(users).attachments
    /\ last.op = "mark_as_read" =>
          \A i \in DOMAIN messages :
              IF IsTarget(i)
              THEN /\ messages[i].is_deleted_by_sender
                          = before.messages[i].is_deleted_by_sender
                   /\ messages[i].is_deleted_by_recipient
                          = before.messages[i].is_deleted_by_recipient
              ELSE messages[i] = before.messages[i]
    /\ last.op = "delete_message" =>
          \A i \in DOMAIN messages :
              IF IsTarget(i)
              THEN /\ messages[i].is_read = before.messages[i].is_read
                   /\ messages[i].read_at = before.messages[i].read_at
                   /\ last.user_id # messages[i].sender_id =>
                          messages[i].is_deleted_by_sender
                              = before.messages[i].is_deleted_by_sender
                   /\ last.user_id # messages[i].recipient_id =>
                          messages[i].is_deleted_by_recipient
                              = before.messages[i].is_deleted_by_recipient
              ELSE messages[i] = before.messages[i]

\* a recipient marked a message read, which set its is_read, while the
\* other message was unread and its sender has deleted the marked one
C32_Witness ==
    /\ last.op = "mark_as_read"
    /\ last.outcome = "OK"
    /\ \E i, j \in DOMAIN messages :
          /\ IsTarget(i)
          /\ ~before.messages[i].is_read
          /\ messages[i].is_read
          /\ messages[i].is_deleted_by_sender
          /\ j # i
          /\ ~messages[j].is_read

\* reachable: a party deleted a read message, which set its flag, while the
\* other message was undeleted
C32_WitnessDelete ==
    /\ last.op = "delete_message"
    /\ last.outcome = "NO_CONTENT"
    /\ \E i, j \in DOMAIN messages :
          /\ IsTarget(i)
          /\ messages[i] # before.messages[i]
          /\ messages[i].is_read
          /\ j # i
          /\ ~messages[j].is_deleted_by_sender
          /\ ~messages[j].is_deleted_by_recipient

\* the rows msgs with every deletion flag cleared
Undeleted(msgs) ==
    [k \in DOMAIN msgs |->
        [msgs[k] EXCEPT !.is_deleted_by_sender = FALSE,
                        !.is_deleted_by_recipient = FALSE]]

\* every message the send found of its sender was deleted by the sender,
\* and one of them by its recipient too
AllDeleted(s) ==
    /\ \A i \in SentBy(s) : before.messages[i].is_deleted_by_sender
    /\ \E i \in SentBy(s) : before.messages[i].is_deleted_by_recipient

\* C34: soft-deleted messages count for rate limiting as undeleted ones do:
\* a send is answered as it would be with no deletion flag set on any
\* stored message, so a duplicate, a send inside the minimum interval and
\* a send at the per-minute or the per-hour cap are rejected also when the
\* sender, the recipient or both have deleted the messages counted.
C34_DeletedStillCount ==
    Served =>
          LET s == last.user_id
              d == last.data
          IN  /\ last.outcome = CreateMessageCheck(users,
                                    Undeleted(before.messages), s, d, clock)
              /\ ValidRecipient(s, d) =>
                    /\ IsRepeat(s, d) => Answers("DUPLICATE", 400)
                    /\ (~IsRepeat(s, d) /\ TooSoon(s))
                          => Answers("MIN_INTERVAL", 429)
                    /\ (~IsRepeat(s, d) /\ ~TooSoon(s) /\ AtMinuteCap(s))
                          => Answers("RATE_MINUTE", 429)
                    /\ (/\ ~IsRepeat(s, d)
                        /\ ~TooSoon(s)
                        /\ ~AtMinuteCap(s)
                        /\ AtHourCap(s)) => Answers("RATE_HOUR", 429)

\* a send was rejected at the per-hour cap after the sender had deleted
\* every message counted and a recipient had deleted one of them
C34_Witness ==
    /\ Served
    /\ last.outcome = "RATE_HOUR"
    /\ AllDeleted(last.user_id)

\* reachable: the same for the per-minute cap, the minimum interval and the
\* duplicate check
C34_WitnessMinute ==
    /\ Served
    /\ last.outcome = "RATE_MINUTE"
    /\ AllDeleted(last.user_id)

C34_WitnessMinInterval ==
    /\ Served
    /\ last.outcome = "MIN_INTERVAL"
    /\ AllDeleted(last.user_id)

C34_WitnessDuplicate ==
    /\ Served
    /\ last.outcome = "DUPLICATE"
    /\ AllDeleted(last.user_id)

\* the caller of the last per-message operation had deleted its target, row
\* i, for itself before the call
DeletedByCaller(i) ==
    /\ IsTarget(i)
    /\ \/ /\ before.messages[i].sender_id = last.user_id
          /\ before.messages[i].is_deleted_by_sender
       \/ /\ before.messages[i].recipient_id = last.user_id
          /\ before.messages[i].is_deleted_by_recipient

\* C35: deletion flags are monotonic: a flag that is set stays set through
\* every operation; a second delete_message of a message by the same party
\* fails with NOT_FOUND (404) and leaves every field of every message as it
\* was.
C35_DeletionMonotonic ==
    /\ \A i \in DOMAIN before.messages :
          /\ before.messages[i].is_deleted_by_sender
                => messages[i].is_deleted_by_sender
          /\ before.messages[i].is_deleted_by_recipient
                => messages[i].is_deleted_by_recipient
    /\ (/\ last.op = "delete_message"
        /\ \E i \in DOMAIN before.messages : DeletedByCaller(i)) =>
          /\ last.outcome = "NOT_FOUND"
          /\ last.status = 404
          /\ messages = before.messages
          /\ attachments = before.attachments

\* the recipient deleted for the second time a message it had read and its
\* sender had deleted too
C35_Witness ==
    /\ last.op = "delete_message"
    /\ last.outcome = "NOT_FOUND"
    /\ \E i \in DOMAIN before.messages :
          /\ DeletedByCaller(i)
          /\ before.messages[i].recipient_id = last.user_id
          /\ before.messages[i].is_read
          /\ before.messages[i].is_deleted_by_sender

\* reachable: a mark_as_read of a message its sender had deleted
C35_WitnessOtherOperation ==
    /\ last.op = "mark_as_read"
    /\ last.outcome = "OK"
    /\ \E i \in DOMAIN messages :
          /\ IsTarget(i)
          /\ messages[i].is_deleted_by_sender
          /\ messages[i] # before.messages[i]

ReadOnly ==
    last.op \in {"get_message_by_id", "get_inbox_messages", "get_sent_messages"}

\* C38: the reads are pure: get_message_by_id, get_inbox_messages and
\* get_sent_messages change no message and no attachment; the message a
\* recipient fetches is returned with the is_read and read_at it had, and
\* is_read and read_at change through mark_as_read only.
C38_ReadsArePure ==
    /\ ReadOnly =>
          /\ messages = before.messages
          /\ attachments = before.attachments
    /\ (last.op = "get_message_by_id" /\ last.outcome = "OK") =>
          \E i \in DOMAIN before.messages :
              /\ IsTarget(i)
              /\ last.message[1] = before.messages[i]
    /\ \A i \in DOMAIN before.messages :
          (\/ messages[i].is_read # before.messages[i].is_read
           \/ messages[i].read_at # before.messages[i].read_at)
              => last.op = "mark_as_read"

\* the recipient fetched an unread message and it stayed unread
C38_Witness ==
    /\ last.op = "get_message_by_id"
    /\ last.outcome = "OK"
    /\ last.message[1].recipient_id = last.user_id
    /\ ~last.message[1].is_read
    /\ \A i \in DOMAIN messages : ~messages[i].is_read

\* reachable: the recipient listed an inbox with an unread message in it
C38_WitnessInbox ==
    /\ last.op = "get_inbox_messages"
    /\ last.result # << >>
    /\ \A i \in DOMAIN messages : ~messages[i].is_read

\* reachable: a sender listed the sent messages, one of them unread
C38_WitnessSent ==
    /\ last.op = "get_sent_messages"
    /\ \E k \in DOMAIN last.result : ~last.result[k].is_read

\* how many messages of s are inside the trailing window of w seconds and
\* neither at its lower edge nor later than now
StrictlyWithin(s, w) ==
    Cardinality({i \in SentBy(s) : Age(i) >= 0 /\ Age(i) < w})

\* C37: the rate windows are closed at their lower bound and unbounded
\* above: a message created exactly SECONDS_PER_MINUTE, SECONDS_PER_HOUR or
\* DUPLICATE_MESSAGE_WINDOW_SECONDS before now, and a message created later
\* than now, is counted by the respective check: an identical message of
\* any age up to the duplicate window makes the send a DUPLICATE, and past
\* the duplicate and the min-interval checks the messages of any age up to
\* a minute (an hour) are counted against the per-minute (per-hour) cap.
C37_WindowsClosedBelow ==
    Served =>
          LET s == last.user_id
              d == last.data
          IN  ValidRecipient(s, d) =>
                  /\ (\E i \in SentBy(s) :
                          /\ Identical(i, s, d)
                          /\ Age(i) <= DUPLICATE_MESSAGE_WINDOW_SECONDS)
                        => Answers("DUPLICATE", 400)
                  /\ (/\ last.outcome \notin {"DUPLICATE", "MIN_INTERVAL"}
                      /\ SentWithin(s, SECONDS_PER_MINUTE)
                             >= MAX_MESSAGES_PER_MINUTE)
                        => Answers("RATE_MINUTE", 429)
                  /\ (/\ last.outcome \notin {"DUPLICATE", "MIN_INTERVAL",
                                              "RATE_MINUTE"}
                      /\ SentWithin(s, SECONDS_PER_HOUR)
                             >= MAX_MESSAGES_PER_HOUR)
                        => Answers("RATE_HOUR", 429)

\* an identical message was sent again exactly the duplicate window after
\* the only one stored, and was rejected as DUPLICATE
C37_Witness ==
    /\ Served
    /\ last.outcome = "DUPLICATE"
    /\ \A i \in SentBy(last.user_id) :
          Identical(i, last.user_id, last.data)
              => Age(i) = DUPLICATE_MESSAGE_WINDOW_SECONDS

\* reachable: a send was rejected at the per-minute cap which the message
\* exactly one minute old made reached
C37_WitnessMinuteEdge ==
    /\ Served
    /\ last.outcome = "RATE_MINUTE"
    /\ StrictlyWithin(last.user_id, SECONDS_PER_MINUTE)
          = MAX_MESSAGES_PER_MINUTE - 1
    /\ \E i \in SentBy(last.user_id) : Age(i) = SECONDS_PER_MINUTE
    /\ \A i \in SentBy(last.user_id) : Age(i) >= 0

\* reachable: the same at the per-hour cap and the message one hour old
C37_WitnessHourEdge ==
    /\ Served
    /\ last.outcome = "RATE_HOUR"
    /\ StrictlyWithin(last.user_id, SECONDS_PER_HOUR)
          = MAX_MESSAGES_PER_HOUR - 1
    /\ \E i \in SentBy(last.user_id) : Age(i) = SECONDS_PER_HOUR
    /\ \A i \in SentBy(last.user_id) : Age(i) >= 0

\* reachable: a send was rejected as DUPLICATE of a message later than now
C37_WitnessFutureDuplicate ==
    /\ Served
    /\ last.outcome = "DUPLICATE"
    /\ \A i \in SentBy(last.user_id) :
          Identical(i, last.user_id, last.data) => Age(i) < 0

\* reachable: a send was rejected at the per-minute cap with every message
\* counted later than now
C37_WitnessFutureMinute ==
    /\ Served
    /\ last.outcome = "RATE_MINUTE"
    /\ \A i \in SentBy(last.user_id) : Age(i) < 0

\* reachable: a send was rejected at the per-hour cap which a message later
\* than now made reached
C37_WitnessFutureHour ==
    /\ Served
    /\ last.outcome = "RATE_HOUR"
    /\ StrictlyWithin(last.user_id, SECONDS_PER_HOUR) < MAX_MESSAGES_PER_HOUR
    /\ \A i \in SentBy(last.user_id) : Age(i) # SECONDS_PER_HOUR

\* the sessions that have completed the operation op of user u on message id
Completed(op, u, id) ==
    {p \in DOMAIN inflight :
        /\ inflight[p].pc = "done"
        /\ inflight[p].op = op
        /\ inflight[p].user_id = u
        /\ inflight[p].message_id = id
        /\ inflight[p].outcome \in {"OK", "NO_CONTENT"}}

\* the sessions past their access check and not yet committed
Flushing == {p \in DOMAIN inflight : inflight[p].pc = "flush"}

\* C39: concurrent per-message mutations by different parties lose no
\* update: once a soft delete by the sender, a soft delete by the recipient
\* and a mark-read by the recipient of one message have completed, in
\* whatever interleaving of their checks and commits, the message has
\* is_deleted_by_sender, is_deleted_by_recipient and is_read all true.
C39_NoLostUpdate ==
    \A i \in DOMAIN messages :
        LET m == messages[i]
        IN  (/\ m.sender_id # m.recipient_id
             /\ Completed("delete_message", m.sender_id, m.id) # {}
             /\ Completed("delete_message", m.recipient_id, m.id) # {}
             /\ Completed("mark_as_read", m.recipient_id, m.id) # {})
                => /\ m.is_deleted_by_sender
                   /\ m.is_deleted_by_recipient
                   /\ m.is_read

\* the three mutations have completed, the mark-read last: it passed its
\* access check before the recipient's delete was committed and was
\* committed after both deletes
C39_Witness ==
    /\ \E i \in DOMAIN messages :
          LET m == messages[i]
          IN  /\ Completed("delete_message", m.sender_id, m.id) # {}
              /\ Completed("delete_message", m.recipient_id, m.id) # {}
              /\ Completed("mark_as_read", m.recipient_id, m.id) # {}
              /\ last.message_id = m.id
    /\ last.op = "mark_as_read"
    /\ last.outcome = "OK"
    /\ \E k \in DOMAIN before.messages :
          /\ before.messages[k].id = last.message_id
          /\ ~before.messages[k].is_read
          /\ before.messages[k].is_deleted_by_sender
          /\ before.messages[k].is_deleted_by_recipient

\* reachable: the three requests have all passed their checks on the same
\* committed row and none has committed
C39_WitnessAllLoaded ==
    /\ Flushing = DOMAIN inflight
    /\ \E p, q, r \in Flushing :
          /\ inflight[p].changed = {"is_deleted_by_sender"}
          /\ inflight[q].changed = {"is_deleted_by_recipient"}
          /\ inflight[r].changed = {"is_read", "read_at"}

\* reachable: the three have completed and the sender's delete, loaded
\* before the other two were committed, was committed last
C39_WitnessDeleteLast ==
    /\ \E i \in DOMAIN messages :
          LET m == messages[i]
          IN  /\ Completed("delete_message", m.sender_id, m.id) # {}
              /\ Completed("delete_message", m.recipient_id, m.id) # {}
              /\ Completed("mark_as_read", m.recipient_id, m.id) # {}
              /\ last.user_id = m.sender_id
              /\ last.message_id = m.id
    /\ last.op = "delete_message"
    /\ last.outcome = "NO_CONTENT"
    /\ \E k \in DOMAIN before.messages :
          /\ before.messages[k].id = last.message_id
          /\ before.messages[k].is_read
          /\ ~before.messages[k].is_deleted_by_sender
          /\ before.messages[k].is_deleted_by_recipient

\* no stored message is later than now
NoneAhead == \A i \in DOMAIN before.messages : Age(i) >= 0

\* sender s has had no send admitted for more than an hour: every message
\* of s is more than SECONDS_PER_HOUR old
Silent(s) == \A i \in SentBy(s) : Age(i) > SECONDS_PER_HOUR

\* C40: no sender is locked out permanently: in a state where no stored
\* created_at is later than now, a sender none of whose sends was admitted
\* in the last SECONDS_PER_HOUR seconds or exactly that long ago is
\* admitted when it sends to an existing, active recipient other than
\* itself, whatever it sent before and however many messages.
C40_NoPermanentLockout ==
    (/\ Served
     /\ ValidRecipient(last.user_id, last.data)
     /\ NoneAhead
     /\ Silent(last.user_id))
        => /\ Answers("ADMITTED", 201)
           /\ Len(messages) = Len(before.messages) + 1

\* a sender who filled the per-hour cap, one of its messages identical to
\* the one now sent, is admitted more than an hour after its last message
C40_Witness ==
    /\ Served
    /\ ValidRecipient(last.user_id, last.data)
    /\ NoneAhead
    /\ Silent(last.user_id)
    /\ Cardinality(SentBy(last.user_id)) >= MAX_MESSAGES_PER_HOUR
    /\ \E i \in SentBy(last.user_id) : Identical(i, last.user_id, last.data)
    /\ last.outcome = "ADMITTED"

\* reachable: the same of a sender one of whose messages was stamped ahead
\* of the application clock, and while another sender has sent since
C40_WitnessSkewed ==
    /\ Served
    /\ ValidRecipient(last.user_id, last.data)
    /\ NoneAhead
    /\ Silent(last.user_id)
    /\ \E i \in SentBy(last.user_id) :
          before.messages[i].created_at \notin IdleInstants
    /\ \E i \in DOMAIN before.messages :
          i \notin SentBy(last.user_id) /\ Age(i) <= SECONDS_PER_MINUTE
    /\ last.outcome = "ADMITTED"

----------------------------------------------------------------------------
(* Vocabulary of the registration and login properties.  A registration    *)
(* is judged from the users table its step found (before.users) and the    *)
(* response it gave (last).                                                *)

\* the handler that ran last answered a registration
Registered == last.op = "register_user"

\* the users the step found with the username, and with the email, asked for
SameUsername == {i \in DOMAIN before.users :
                    before.users[i].username = last.user_data.username}

SameEmail == {i \in DOMAIN before.users :
                 before.users[i].email = last.user_data.email}

\* no two rows of the table share a username or an email
Unique(us) ==
    \A i, j \in DOMAIN us :
        i # j => /\ us[i].username # us[j].username
                 /\ us[i].email # us[j].email

\* C27 as stated: no two users share a username or an email; a registration
\* whose username or email is that of an existing user is rejected with 400,
\* "Username already registered" when the username matches and "Email already
\* registered" otherwise, and creates no user; a registration creates a user
\* only when no user has its username or its email.
C27_AsStated ==
    /\ Unique(users)
    /\ (Registered /\ SameUsername \cup SameEmail # {}) =>
          /\ last.status = 400
          /\ last.detail = IF SameUsername # {}
                           THEN <<"Username already registered">>
                           ELSE <<"Email already registered">>
          /\ last.user = NULL
          /\ users = before.users
    /\ (Registered /\ last.user # NULL) => SameUsername \cup SameEmail = {}

\* C27: no two users share a username or an email.  A registration whose
\* username or email is that of an existing user is rejected with 400 and
\* creates no user.  Rejected by the existence check, its detail is
\* "Username already registered" or "Email already registered", the first
\* only if the username matches and the second only if the email matches a
\* user with another username; it is the first when no such user exists.
\* Rejected at the commit, after a registration with the same username or
\* email was committed behind its check, its detail is "User with this
\* username or email already exists".  A registration creates a user only
\* when no user has its username or email, so of two concurrent ones with
\* the same username or email at most one does.
C27_RegistrationUnique ==
    /\ Unique(users)
    /\ (Registered /\ SameUsername \cup SameEmail # {}) =>
          /\ last.status = 400
          /\ last.user = NULL
          /\ users = before.users
          /\ last.step = "check" =>
                /\ last.detail \in {<<"Username already registered">>,
                                    <<"Email already registered">>}
                /\ last.detail = <<"Username already registered">>
                      => SameUsername # {}
                /\ last.detail = <<"Email already registered">>
                      => SameEmail \ SameUsername # {}
          /\ last.step = "commit" =>
                last.detail
                    = <<"User with this username or email already exists">>
    /\ (Registered /\ last.user # NULL) =>
          /\ SameUsername \cup SameEmail = {}
          /\ last.status = 201
          /\ Len(users) = Len(before.users) + 1
          /\ users[last.user[1]].username = last.user_data.username
          /\ users[last.user[1]].email = last.user_data.email
    /\ (Registered /\ SameUsername \cup SameEmail = {}) => last.user # NULL

\* a registration with the username of one user and the email of another
\* was answered "Email already registered"
C27_Witness ==
    /\ Registered
    /\ SameUsername # {}
    /\ SameEmail \ SameUsername # {}
    /\ last.detail = <<"Email already registered">>

\* reachable: of two registrations with the same email and different
\* usernames that both passed the check, the second to commit was rejected
C27_WitnessRace ==
    /\ Registered
    /\ last.step = "commit"
    /\ last.status = 400
    /\ SameUsername = {}
    /\ SameEmail # {}

\* reachable: two registrations were stored
C27_WitnessCreated ==
    /\ Registered
    /\ last.user # NULL
    /\ Len(users) = Len(AuthUsers) + 2

\* the registration answered last met the unique index at its commit: it
\* had passed the existence check before the other user was stored
Raced == Registered /\ last.outcome = "INTEGRITY_ERROR"

\* C28: an integrity violation caused by a registration race surfaces to
\* the caller as an INTERNAL error (status 500), is logged, and is not
\* retried: no user is stored for the request.
C28_IntegritySurfacesInternal ==
    Raced =>
        /\ last.status = 500
        /\ last.log # << >>
        /\ last.user = NULL
        /\ users = before.users

\* what holds of a registration that lost a race: it is answered 400 "User
\* with this username or email already exists", logged as an error, and no
\* user is stored for it
C28_IntegritySurfacesBadRequest ==
    Raced =>
        /\ last.status = 400
        /\ last.detail = <<"User with this username or email already exists">>
        /\ last.log = <<"error">>
        /\ last.user = NULL
        /\ users = before.users

\* reachable: two registrations of one username passed the check and the
\* second to commit met the unique index
C28_Witness ==
    /\ Raced
    /\ SameUsername # {}

\* the handler that ran last served a login
LoggedIn == last.op = "authenticate_user"

\* the users with the username given to the login
Known == {i \in DOMAIN before.users :
             before.users[i].username = last.username}

\* the password given to the login is the one user i registered with
Verifies(i) == VerifyPassword(last.password, before.users[i].hashed_password)

\* C29: authenticate_user returns a user only when a user with that username
\* exists, the password verifies and the user is active, and then it returns
\* that user; it returns no user, and the same answer, for an unknown
\* username and for a wrong password, also when the user is inactive; it
\* raises 403 "Inactive user" for an inactive user with the correct password.
C29_Authenticate ==
    LoggedIn =>
        /\ last.user # NULL <=>
              \E i \in Known : Verifies(i) /\ before.users[i].is_active
        /\ last.user # NULL =>
              /\ last.user[1] \in Known
              /\ Verifies(last.user[1])
              /\ before.users[last.user[1]].is_active
              /\ last.outcome = "OK"
        /\ (\A i \in Known : ~Verifies(i)) =>
              /\ last.outcome = "NONE"
              /\ last.status = 401
              /\ last.detail = <<"Incorrect username or password">>
        /\ (\E i \in Known : Verifies(i) /\ ~before.users[i].is_active) =>
              /\ last.outcome = "FORBIDDEN"
              /\ last.status = 403
              /\ last.detail = <<"Inactive user">>
        /\ users = before.users

\* the inactive user logged in with a wrong password and was answered as an
\* unknown user is
C29_Witness ==
    /\ LoggedIn
    /\ \E i \in Known : ~before.users[i].is_active /\ ~Verifies(i)
    /\ last.outcome = "NONE"

\* reachable: the inactive user logged in with the correct password
C29_WitnessInactive ==
    /\ LoggedIn
    /\ \E i \in Known : ~before.users[i].is_active /\ Verifies(i)
    /\ last.status = 403

\* reachable: a user registered a moment ago logged in
C29_WitnessRegistered ==
    /\ LoggedIn
    /\ last.user # NULL
    /\ last.user[1] > Len(AuthUsers)

\* reachable: a login with an unknown username
C29_WitnessUnknown ==
    /\ LoggedIn
    /\ Known = {}
    /\ last.outcome = "NONE"

====
